---- MODULE Spec2Model ----
(***************************************************************************)
(* A model of the prediction engine of preflate-rs: the PredictorState     *)
(* search primitives over the hash chain, the TokenPredictor block         *)
(* encode/decode pair and the TreePredictor header encode/decode pair.     *)
(*                                                                         *)
(* Every fallible operation returns a record whose field `st` is one of    *)
(*   "ok"    the Rust function returned normally (Ok(..) for a Result),    *)
(*   "err"   the Rust function returned Err(..),                           *)
(*   "panic" the Rust function did not return: a failed assert!, an        *)
(*           out-of-range index or slice, or an unsigned subtraction       *)
(*           below zero.                                                   *)
(***************************************************************************)
EXTENDS Integers, Sequences, FiniteSets, TLC

VARIABLES
    plain_text,   \* the uncompressed bytes handed to the predictors
    params,       \* PreflateParameters, immutable after estimation
    st,           \* a PredictorState driven directly: input position and hash chain
    op,           \* the last PredictorState operation applied to st: name, length, old position
    enc,          \* the TokenPredictor of the encode path
    dec,          \* the TokenPredictor of the decode path
    cur_block,    \* the target block last handed to predict_block
    cur_last,     \* predict_block's last_block argument for that block
    events,       \* what predict_block emitted for that block: st and the event sequence
    rec,          \* what recreate_block returned for that block: st, block, kinds read
    pc,           \* "predict": the next block is to be encoded; "recreate": to be decoded
    blocks_done,  \* the number of blocks encoded so far
    tree,         \* the TreePredictor run: its inputs, the events emitted, the header returned
    est,          \* the compression-level estimator: its inputs, chains, info and position
    reader        \* a ZipBitReader and the stream under it

hashVars == <<st, op>>
tokVars == <<enc, dec, cur_block, cur_last, events, rec, pc, blocks_done, tree>>

(***************************************************************************)
(* Bounds of the model.                                                    *)
(***************************************************************************)
MaxInputLen == 5
MaxBlockTokens == 3
MaxBlocks == 2
\* the decoder fed arbitrary values: MaxFuzzLen values of 0 .. MaxFuzzVal each,
\* MaxFuzzBlocks blocks in a row
MaxFuzzVal == 2
MaxFuzzLen == 5
MaxFuzzBlocks == 1
MaxCountDelta == 1
MaxLengthEdit == 1

(***************************************************************************)
(* Program constants.                                                      *)
(***************************************************************************)
MIN_MATCH == 3
MAX_MATCH == 258
MIN_LOOKAHEAD == 262
\* the hash chain stores positions shifted by 8, so that 0 can mean "no entry":
\* an empty slot is walked as position -8
NoPos == -8
\* calculate_hops: let max_chain_org = 0xffff
max_chain_org == 65535

Min(a, b) == IF a < b THEN a ELSE b
Max(a, b) == IF a > b THEN a ELSE b

(***************************************************************************)
(* Plaintexts.  The byte values 0 and 8 collide in the rolling hash for    *)
(* hash_shift = 3, hash_mask = 511: the first byte of the 3-byte window is *)
(* shifted out of the mask when it is 8, so "0xy" and "8xy" share a chain. *)
(***************************************************************************)
Bytes == {0, 8}

RECURSIVE SeqsUpTo(_, _)
SeqsUpTo(S, n) ==
    IF n = 0 THEN {<<>>}
    ELSE LET shorter == SeqsUpTo(S, n - 1)
         IN  shorter \cup {Append(s, b) : s \in {x \in shorter : Len(x) = n - 1}, b \in S}

\* sample plaintexts beyond the enumerated short ones: a lazy-match case and
\* a run of equal bytes
SamplePlaintexts ==
    { <<8, 0, 8, 8, 0, 8, 0, 0, 0, 8, 0, 8, 8>>,
      <<0, 0, 0, 0, 0, 0, 0, 0>> }

Plaintexts == SeqsUpTo(Bytes, MaxInputLen) \cup SamplePlaintexts

(***************************************************************************)
(* PreflateParameters.                                                     *)
(***************************************************************************)
ZlibSlowParams ==
    [ window_bits |-> 15, hash_shift |-> 3, hash_mask |-> 511,
      max_token_count |-> 2,
      zlib_compatible |-> TRUE, matches_to_start_detected |-> FALSE,
      very_far_matches_detected |-> FALSE, is_fast_compressor |-> FALSE,
      good_length |-> 4, nice_length |-> 16, max_lazy |-> 4, max_chain |-> 16,
      max_dist_3_matches |-> 4096, log2_of_max_chain_depth_m1 |-> 0 ]

\* zlib level 6 with the default memory level: 15 hash bits, deflate_slow
ZlibLevel6Params ==
    [ ZlibSlowParams EXCEPT !.hash_shift = 5, !.hash_mask = 32767, !.max_token_count = 16383,
                            !.good_length = 8, !.nice_length = 128, !.max_lazy = 16,
                            !.max_chain = 128 ]

\* zlib level 1: deflate_fast, max_lazy is the insertion threshold
ZlibFastParams ==
    [ ZlibSlowParams EXCEPT !.is_fast_compressor = TRUE, !.nice_length = 8, !.max_chain = 4,
                            !.max_token_count = 1 ]

\* an encoder that is not zlib: chain depth bound by log2_of_max_chain_depth_m1
NonZlibParams ==
    [ ZlibSlowParams EXCEPT !.zlib_compatible = FALSE, !.matches_to_start_detected = TRUE,
                            !.very_far_matches_detected = TRUE, !.max_lazy = 258,
                            !.max_dist_3_matches = 32768, !.max_token_count = 16386 ]

\* small search knobs, so that nice_length, max_chain and max_dist_3_matches
\* bind on short plaintexts
TightParams ==
    [ ZlibSlowParams EXCEPT !.good_length = 3, !.nice_length = 3, !.max_lazy = 5,
                            !.max_chain = 4, !.max_dist_3_matches = 1, !.window_bits = 9 ]

ParamSets == { ZlibSlowParams, ZlibFastParams, NonZlibParams, TightParams }

(***************************************************************************)
(* PreflateInput: a read-only view of the plaintext plus a position.       *)
(* Positions are 0-based as in the source; plain_text is 1-based.          *)
(***************************************************************************)
InputSize == Len(plain_text)

ByteAt(p) == plain_text[p + 1]

Remaining(s) == InputSize - s.pos

(***************************************************************************)
(* RotatingHash: h' = ((h << shift) ^ b) & mask over a 3-byte window.      *)
(***************************************************************************)
RECURSIVE BitXor(_, _)
BitXor(a, b) ==
    IF a = 0 THEN b
    ELSE IF b = 0 THEN a
    ELSE (((a % 2) + (b % 2)) % 2) + 2 * BitXor(a \div 2, b \div 2)

RECURSIVE Pow2(_)
Pow2(n) == IF n = 0 THEN 1 ELSE 2 * Pow2(n - 1)

HashAppend(h, b) == BitXor(h * Pow2(params.hash_shift), b) % (params.hash_mask + 1)

\* the hash of the 3-byte window starting at position p (p + 2 < InputSize)
HashAt(p) == HashAppend(HashAppend(HashAppend(0, ByteAt(p)), ByteAt(p + 1)), ByteAt(p + 2))

hash_equal(a, b) == a = b

(***************************************************************************)
(* HashChain: head[hash] -> position, prev[position] -> position.          *)
(* head and prev are kept sparse: a hash or position that is not in the    *)
(* domain is an empty slot.                                                *)
(***************************************************************************)
ChainHead(s, h) == IF h \in DOMAIN s.head THEN s.head[h] ELSE NoPos

ChainPrev(s, p) == IF p \in DOMAIN s.prev THEN s.prev[p] ELSE NoPos

\* insert position p into the chain of its hash
InsertPos(s, p) ==
    LET h == HashAt(p)
    IN  [s EXCEPT !.prev = (p :> ChainHead(s, h)) @@ s.prev,
                  !.head = (h :> p) @@ s.head]

\* insert every position of [from, to) that has a full 3-byte window, in
\* ascending order
RECURSIVE InsertSome(_, _, _)
InsertSome(s, from, to) ==
    IF from >= to \/ from + 2 >= InputSize THEN s
    ELSE InsertSome(InsertPos(s, from), from + 1, to)

\* HashChain::update_hash: the positions of [from, to), none of them behind
\* the input position, sixteen at a time
RECURSIVE InsertRange(_, _, _)
InsertRange(s, from, to) ==
    IF from < s.pos THEN s
    ELSE IF to - from > 16 THEN InsertRange(InsertSome(s, from, from + 16), from + 16, to)
    ELSE InsertSome(s, from, to)

\* HashChain::skip_hash: only the first position enters the chain
InsertFirst(s, len) ==
    IF len > 0 /\ s.pos + 2 < InputSize THEN InsertPos(s, s.pos) ELSE s

\* the chain cursor: walked position, its distance from ref_pos, validity
Cursor(ref_pos, max_dist, p) ==
    [ pos |-> p, dist |-> ref_pos - p, ref |-> ref_pos, max_dist |-> max_dist,
      valid |-> p # NoPos /\ ref_pos - p <= max_dist ]

iterate_from_head(s, hash, ref_pos, max_dist) == Cursor(ref_pos, max_dist, ChainHead(s, hash))

\* HashIterator::next: the cursor after the advance; its valid field is the
\* boolean next() returns
CursorNext(s, it) == Cursor(it.ref, it.max_dist, ChainPrev(s, it.pos))

RECURSIVE ChainReaches(_, _, _)
ChainReaches(s, from, p) ==
    IF from = NoPos THEN FALSE
    ELSE IF from = p THEN TRUE
    ELSE ChainReaches(s, ChainPrev(s, from), p)

\* position p is reachable by walking the chain from the head of its hash
Reachable(s, p) == ChainReaches(s, ChainHead(s, HashAt(p)), p)

(***************************************************************************)
(* PredictorState.                                                         *)
(***************************************************************************)
\* PredictorState::new followed by TokenPredictor::new's update_hash(0)
NewState == [ pos |-> 0, head |-> <<>>, prev |-> <<>> ]

window_size == Pow2(params.window_bits)

update_hash_noadvance(s, length) == InsertRange(s, s.pos, s.pos + length)

update_hash(s, length) ==
    [InsertRange(s, s.pos, s.pos + length) EXCEPT !.pos = s.pos + length]

skip_hash(s, length) ==
    [InsertFirst(s, length) EXCEPT !.pos = s.pos + length]

\* the common run of the slices starting at s1 and s2, from index i up to max_len
\* (sixteen bytes at a time while they all agree, to keep the evaluation shallow)
RECURSIVE MatchRun(_, _, _, _)
MatchRun(s1, s2, i, max_len) ==
    IF i + 16 <= max_len /\ \A j \in i .. (i + 15) : ByteAt(s1 + j) = ByteAt(s2 + j)
    THEN MatchRun(s1, s2, i + 16, max_len)
    ELSE IF i < max_len /\ ByteAt(s1 + i) = ByteAt(s2 + i)
    THEN MatchRun(s1, s2, i + 1, max_len)
    ELSE i

\* prefix_compare on the slices plain_text[s1..] and plain_text[s2..];
\* -1 stands for the failed assertion (or a slice that starts out of range)
prefix_compare(s1, s2, best_len, max_len) ==
    IF s1 < 0 \/ s2 < 0 \/ s1 > InputSize \/ s2 > InputSize THEN -1
    ELSE IF ~(max_len >= 3 /\ InputSize - s1 >= max_len /\ InputSize - s2 >= max_len) THEN -1
    ELSE IF best_len < 0 \/ best_len >= InputSize - s1 \/ best_len >= InputSize - s2 THEN -1
    ELSE IF ByteAt(s1 + best_len) # ByteAt(s2 + best_len) THEN 0
    ELSE IF ByteAt(s1) # ByteAt(s2) \/ ByteAt(s1 + 1) # ByteAt(s2 + 1)
            \/ ByteAt(s1 + 2) # ByteAt(s2 + 2) THEN 0
    ELSE MatchRun(s1, s2, 3, max_len)

Ok(v) == [st |-> "ok", v |-> v]
Err == [st |-> "err", v |-> 0]
Panic == [st |-> "panic", v |-> 0]

\* the loop of calculate_hops: HopsLoop is one iteration from the
\* prefix_compare on, HopsStep the rest of it given match_length, hops counted
RECURSIVE HopsLoop(_, _, _, _, _)
RECURSIVE HopsStep(_, _, _, _, _, _)
HopsStep(s, it, target, hops1, max_chain, nxt) ==
    IF it.dist >= target.dist
    THEN (IF it.dist = target.dist THEN Ok(hops1) ELSE Err)
    ELSE IF ~nxt.valid \/ max_chain <= 1 THEN Err
    ELSE HopsLoop(s, nxt, target, hops1, max_chain - 1)

HopsCount(s, it, target, hops, max_chain, match_length) ==
    IF match_length < 0 THEN Panic
    ELSE HopsStep(s, it, target, IF match_length >= target.len THEN hops + 1 ELSE hops,
                  max_chain, CursorNext(s, it))

HopsLoop(s, it, target, hops, max_chain) ==
    HopsCount(s, it, target, hops, max_chain,
              prefix_compare(s.pos - it.dist, s.pos, target.len - 1, target.len))

calculate_hops(s, target) ==
    IF Remaining(s) < 3 THEN Panic    \* cur_hash reads the byte at pos + 2
    ELSE IF Min(Remaining(s), MAX_MATCH) < target.len THEN Err
    ELSE LET cur_max_dist == Min(s.pos, window_size)
             it == iterate_from_head(s, HashAt(s.pos), s.pos, cur_max_dist)
         IN  IF ~it.valid THEN Err
             ELSE IF target.len < 1 THEN Panic    \* best_len - 1 below zero
             ELSE HopsLoop(s, it, target, 0, max_chain_org)

\* the loop of hop_match
HopMatchStrict(match_length, len) == match_length > len

HopMatchCounts(match_length, len) == match_length >= len

\* HopMatchLoop is one iteration from the prefix_compare on, HopMatchStep the
\* rest of it given whether the entry counts as a hop
RECURSIVE HopMatchLoop(_, _, _, _, _)
RECURSIVE HopMatchStep(_, _, _, _, _, _)
HopMatchStep(s, it, len, hops, hop1, nxt) ==
    IF ~nxt.valid THEN Err ELSE HopMatchLoop(s, nxt, len, hops, hop1)

HopMatchCount(s, it, len, hops, current_hop, match_length) ==
    IF match_length < 0 THEN Panic
    ELSE IF HopMatchCounts(match_length, len)
    THEN (IF current_hop + 1 = hops THEN Ok(it.dist)
          ELSE HopMatchStep(s, it, len, hops, current_hop + 1, CursorNext(s, it)))
    ELSE HopMatchStep(s, it, len, hops, current_hop, CursorNext(s, it))

HopMatchLoop(s, it, len, hops, current_hop) ==
    HopMatchCount(s, it, len, hops, current_hop,
                  prefix_compare(s.pos - it.dist, s.pos, len - 1, len))

hop_match(s, len, hops) ==
    IF Min(Remaining(s), MAX_MATCH) < len THEN Err
    ELSE IF Remaining(s) < 3 THEN Panic    \* calculate_hash reads the byte at pos + 2
    ELSE LET cur_max_dist == Min(s.pos, window_size)
             it == iterate_from_head(s, HashAt(s.pos), s.pos, cur_max_dist)
         IN  IF ~it.valid THEN Err
             ELSE IF len < 1 THEN Panic    \* len - 1 below zero
             ELSE HopMatchLoop(s, it, len, hops, 0)

(***************************************************************************)
(* MatchResult and match_token.                                            *)
(***************************************************************************)
NoRef == [len |-> 0, dist |-> 0, irr |-> FALSE]

Ref(len, dist, irr) == [len |-> len, dist |-> dist, irr |-> irr]

Success(r) == [st |-> "ok", kind |-> "Success", ref |-> r, a |-> 0, b |-> 0]
MatchOther(kind, a, b) == [st |-> "ok", kind |-> kind, ref |-> NoRef, a |-> a, b |-> b]
MatchPanic == [st |-> "panic", kind |-> "Panic", ref |-> NoRef, a |-> 0, b |-> 0]

\* match_length > best_len: a tie does not replace the current best
MatchImprovesOrTies(match_length, best_len) == match_length >= best_len
MatchImproves(match_length, best_len) == match_length > best_len

\* the loop of match_token over the chain cursor: MatchLoop is one iteration
\* from the prefix_compare on, MatchKeep the update of the best match,
\* MatchStep the advance of the cursor and the chain budget.  max_chain -= 1
\* at zero panics in a build with overflow checks (checked) and wraps to
\* 2^32 - 1 otherwise; a chain has fewer entries than that, so the wrapped
\* budget is kept as a negative number that never counts down to zero
RECURSIVE MatchLoop(_, _, _, _, _, _, _, _, _)
RECURSIVE MatchStep(_, _, _, _, _, _, _, _, _, _)
MatchStep(checked, s, it, start_pos, max_len, nice_len, best_len1, best_match1, max_chain,
          match_length) ==
    IF ~CursorNext(s, it).valid
    THEN (IF best_match1 # NoRef THEN Success(best_match1)
          ELSE MatchOther("NoMoreMatchesFound", match_length, it.dist))
    ELSE IF max_chain = 0 /\ checked THEN MatchPanic
    ELSE IF max_chain - 1 = 0
         THEN (IF best_match1 # NoRef THEN Success(best_match1)
               ELSE MatchOther("MaxChainExceeded", 0, 0))
    ELSE MatchLoop(checked, s, CursorNext(s, it), start_pos, max_len, nice_len, best_len1,
                   best_match1, max_chain - 1)

\* a variant that measures every candidate in full and lets a tie replace the
\* best match
TiedLength(it, start_pos, max_len) == prefix_compare(start_pos - it.dist, start_pos, 0, max_len)

MatchKeepTies(checked, s, it, start_pos, max_len, nice_len, best_len, best_match, max_chain, match_length) ==
    IF match_length < 0 THEN MatchPanic
    ELSE IF TiedLength(it, start_pos, max_len) >= MIN_MATCH
            /\ TiedLength(it, start_pos, max_len) >= best_len
    THEN (IF TiedLength(it, start_pos, max_len) >= nice_len
          THEN Success(Ref(TiedLength(it, start_pos, max_len), it.dist, FALSE))
          ELSE MatchStep(checked, s, it, start_pos, max_len, nice_len,
                         TiedLength(it, start_pos, max_len),
                         Ref(TiedLength(it, start_pos, max_len), it.dist, FALSE), max_chain,
                         match_length))
    ELSE MatchStep(checked, s, it, start_pos, max_len, nice_len, best_len, best_match, max_chain,
                   match_length)

MatchKeep(checked, s, it, start_pos, max_len, nice_len, best_len, best_match, max_chain, match_length) ==
    IF match_length < 0 THEN MatchPanic
    ELSE IF MatchImproves(match_length, best_len)
    THEN (IF match_length >= nice_len THEN Success(Ref(match_length, it.dist, FALSE))
          ELSE MatchStep(checked, s, it, start_pos, max_len, nice_len, match_length,
                         Ref(match_length, it.dist, FALSE), max_chain, match_length))
    ELSE MatchStep(checked, s, it, start_pos, max_len, nice_len, best_len, best_match, max_chain,
                   match_length)

MatchLoop(checked, s, it, start_pos, max_len, nice_len, best_len, best_match, max_chain) ==
    MatchKeep(checked, s, it, start_pos, max_len, nice_len, best_len, best_match, max_chain,
              prefix_compare(start_pos - it.dist, start_pos, best_len, max_len))

\* the three distance bounds of match_token; a value below zero is an
\* unsigned underflow
max_dist_to_start(start_pos) ==
    start_pos - (IF params.matches_to_start_detected THEN 0 ELSE 1)

max_dist == window_size - MIN_LOOKAHEAD

\* the bound for the head entry of the chain and the bound for the later ones
cur_max_dist_hop0(start_pos) ==
    IF params.very_far_matches_detected THEN Min(max_dist_to_start(start_pos), window_size)
    ELSE Min(max_dist_to_start(start_pos), max_dist)

Hop1PlusBelowHop0(start_pos) == cur_max_dist_hop0(start_pos) - 1

cur_max_dist_hop1_plus(start_pos) ==
    IF params.very_far_matches_detected THEN cur_max_dist_hop0(start_pos)
    ELSE Min(max_dist_to_start(start_pos), max_dist - 1)

\* the number of chain entries match_token may visit
MaxChain(prev_len, max_depth) ==
    IF max_depth > 0 THEN max_depth
    ELSE IF prev_len >= params.good_length THEN params.max_chain \div 4
    ELSE params.max_chain

\* the test for NoInput
LacksInputForPrefix(max_len, prev_len) == max_len < MIN_MATCH

LacksInput(max_len, prev_len) == max_len < Max(prev_len + 1, MIN_MATCH)

\* the length at which match_token stops looking for a longer match
NiceLenAlwaysMin(max_depth, max_len) == Min(params.nice_length, max_len)

NiceLen(max_depth, max_len) ==
    IF max_depth > 0 THEN max_len ELSE Min(params.nice_length, max_len)

MatchTokenIn(checked, s, hash, prev_len, offset, max_depth) ==
    LET start_pos == s.pos + offset
        max_len == Min(InputSize - start_pos, MAX_MATCH)
        nice_len == NiceLen(max_depth, max_len)
        chain_it == iterate_from_head(s, hash, start_pos, cur_max_dist_hop1_plus(start_pos))
    IN  IF InputSize - start_pos < 0 THEN MatchPanic
        ELSE IF LacksInput(max_len, prev_len) THEN MatchOther("NoInput", 0, 0)
        ELSE IF max_dist_to_start(start_pos) < 0 THEN MatchPanic
        ELSE IF ~params.very_far_matches_detected /\ max_dist - 1 < 0 THEN MatchPanic
        ELSE IF chain_it.dist > cur_max_dist_hop0(start_pos)
             THEN MatchOther("DistanceLargerThanHop0", chain_it.dist,
                             cur_max_dist_hop0(start_pos))
        ELSE MatchLoop(checked, s, chain_it, start_pos, max_len, nice_len, prev_len, NoRef,
                       MaxChain(prev_len, max_depth))

\* the callers below run with budgets of at least 1, where the build makes
\* no difference
match_token(s, hash, prev_len, offset, max_depth) ==
    MatchTokenIn(TRUE, s, hash, prev_len, offset, max_depth)

(***************************************************************************)
(* TokenPredictor.  A predictor is a PredictorState (pos, head, prev)      *)
(* extended with pending_reference and current_token_count.                *)
(***************************************************************************)
Literal == [t |-> "L", len |-> 1, dist |-> 0, irr |-> FALSE]

Reference(r) == [t |-> "R", len |-> r.len, dist |-> r.dist, irr |-> r.irr]

TokRef(tok) == Ref(tok.len, tok.dist, tok.irr)

\* TokenPredictor::new(uncompressed, params, 0)
NewPredictor ==
    [ pos |-> 0, head |-> <<>>, prev |-> <<>>, pending |-> NoRef, count |-> 0 ]

\* the depth handed to match_token: 0 selects params.max_chain
SearchDepth(k) ==
    IF params.zlib_compatible THEN 0 ELSE k * Pow2(params.log2_of_max_chain_depth_m1)

\* the run of bytes equal to the byte at pos, counted from pos + 1
RECURSIVE RleRun(_, _, _)
RleRun(p, rle, max_size) ==
    IF rle + 16 <= max_size /\ \A j \in rle .. (rle + 15) : ByteAt(p + 1 + j) = ByteAt(p)
    THEN RleRun(p, rle + 16, max_size)
    ELSE IF rle < max_size /\ ByteAt(p + 1 + rle) = ByteAt(p) THEN RleRun(p, rle + 1, max_size)
    ELSE rle

\* the lazy-match probe of predict_token: found is the match starting at the
\* next byte; a run of the current byte longer than both matches replaces it
LazyPick(tp, hash, m, found, rle) ==
    IF found.st = "panic" THEN found
    ELSE IF /\ hash_equal(HashAt(tp.pos + 1), hash)
            /\ rle > m.len
            /\ rle > (IF found.kind = "Success" THEN found.ref.len ELSE 0)
         THEN Success(Ref(rle, 1, FALSE))
    ELSE found

LazyNext(tp, hash, m) ==
    LazyPick(tp, hash, m, match_token(tp, HashAt(tp.pos + 1), m.len, 1, SearchDepth(2)),
             RleRun(tp.pos, 0, Min(Remaining(tp) - 1, MAX_MATCH)))

PredOut(status, tok, pending) == [st |-> status, tok |-> tok, pending |-> pending]

\* a length-3 match farther than max_dist_3_matches is not worth a reference
TooFarNever(m) == FALSE
TooFar(m) == m.len = 3 /\ m.dist > params.max_dist_3_matches

\* a variant that stashes match_next whatever the encoder is
LazyDecideStash(m, match_next) ==
    IF match_next.st = "panic" THEN PredOut("panic", Literal, NoRef)
    ELSE IF match_next.kind = "Success" /\ match_next.ref.len > m.len
         THEN PredOut("ok", Literal, match_next.ref)
    ELSE PredOut("ok", Reference(m), NoRef)

\* predict_token once the lazy probe match_next is known
LazyDecide(m, match_next) ==
    IF match_next.st = "panic" THEN PredOut("panic", Literal, NoRef)
    ELSE IF match_next.kind = "Success" /\ match_next.ref.len > m.len
         THEN PredOut("ok", Literal, IF params.zlib_compatible THEN match_next.ref ELSE NoRef)
    ELSE PredOut("ok", Reference(m), NoRef)

\* predict_token once the match m at the current position is known
PredictFrom(tp, hash, m) ==
    IF m.st = "panic" THEN PredOut("panic", Literal, NoRef)
    ELSE IF m.kind # "Success" THEN PredOut("ok", Literal, NoRef)
    ELSE IF m.ref.len < MIN_MATCH THEN PredOut("ok", Literal, NoRef)
    ELSE IF params.is_fast_compressor THEN PredOut("ok", Reference(m.ref), NoRef)
    ELSE IF TooFar(m.ref) THEN PredOut("ok", Literal, NoRef)
    ELSE IF m.ref.len < params.max_lazy /\ Remaining(tp) >= m.ref.len + 2
         THEN LazyDecide(m.ref, LazyNext(tp, hash, m.ref))
    ELSE PredOut("ok", Reference(m.ref), NoRef)

\* a variant that searches the chain at position 0 as well
predict_token_from_start(tp) ==
    IF Remaining(tp) < 0 THEN PredOut("panic", Literal, NoRef)
    ELSE IF Remaining(tp) < MIN_MATCH THEN PredOut("ok", Literal, tp.pending)
    ELSE PredictFrom(tp, HashAt(tp.pos),
                     IF tp.pending # NoRef THEN Success(tp.pending)
                     ELSE match_token(tp, HashAt(tp.pos), 0, 0, SearchDepth(1)))

\* predict_token: the predicted token and the new pending_reference
predict_token(tp) ==
    IF Remaining(tp) < 0 THEN PredOut("panic", Literal, NoRef)
    ELSE IF tp.pos = 0 \/ Remaining(tp) < MIN_MATCH THEN PredOut("ok", Literal, tp.pending)
    ELSE PredictFrom(tp, HashAt(tp.pos),
                     IF tp.pending # NoRef THEN Success(tp.pending)
                     ELSE match_token(tp, HashAt(tp.pos), 0, 0, SearchDepth(1)))

\* repredict_reference once the match m is known
RepredictFrom(m) ==
    IF m.st = "panic" THEN [st |-> "panic", ref |-> NoRef]
    ELSE IF m.kind = "Success" /\ m.ref.len >= MIN_MATCH THEN [st |-> "ok", ref |-> m.ref]
    ELSE [st |-> "err", ref |-> NoRef]

\* repredict_reference: st, the reference found; pending_reference is cleared
repredict_reference(tp) ==
    IF Remaining(tp) < 0 THEN [st |-> "panic", ref |-> NoRef]
    ELSE IF tp.pos = 0 \/ Remaining(tp) < MIN_MATCH THEN [st |-> "err", ref |-> NoRef]
    ELSE RepredictFrom(match_token(tp, HashAt(tp.pos), 0, 0,
                                   2 * Pow2(params.log2_of_max_chain_depth_m1)))

\* a variant that enters every match
UsesSkipHashNever(tok) == FALSE

\* skip_hash is used when the fast compressor would not enter the match
UsesSkipHash(tok) == params.is_fast_compressor /\ tok.len > params.max_lazy

\* commit_token: advance the hash and the input over the token
commit_token(tp, tok) ==
    LET moved == IF tok.t = "L" THEN update_hash(tp, 1)
                 ELSE IF UsesSkipHash(tok) THEN skip_hash(tp, tok.len)
                 ELSE update_hash(tp, tok.len)
    IN  [moved EXCEPT !.count = tp.count + 1]

(***************************************************************************)
(* The prediction codec surface.  An event is a kind and a value; a        *)
(* misprediction carries 0 (false) or 1 (true).  encode_verify_state is a  *)
(* debugging rendezvous and emits nothing.                                 *)
(***************************************************************************)
Ev(k, v) == [k |-> k, v |-> v]

\* the value the decoder obtains at index i: the default once the sequence is exhausted
ValAt(evs, i) == IF i <= Len(evs) THEN evs[i].v ELSE 0

Kinds(evs) == [i \in 1 .. Len(evs) |-> evs[i].k]

\* zig-zag over the signed delta; 0 means "predicted exactly"
encode_difference(pred_val, act_val) ==
    IF act_val >= pred_val THEN 2 * (act_val - pred_val) ELSE 2 * (pred_val - act_val) - 1

\* a result below zero is an unsigned underflow
decode_difference(pred_val, enc_val) ==
    IF enc_val % 2 = 0 THEN pred_val + (enc_val \div 2) ELSE pred_val - ((enc_val + 1) \div 2)

BT_STORED == 0
BT_DYNAMICHUFF == 1
BT_STATICHUFF == 2

NewBlock(bt) == [block_type |-> bt, tokens |-> <<>>, uncompressed_len |-> 0, padding_bits |-> 0]

(***************************************************************************)
(* predict_block.                                                          *)
(***************************************************************************)
EncOut(status, tp, evs) == [st |-> status, tp |-> tp, evs |-> evs]

\* a variant that never announces the block size
TokenCountAlwaysDefault(n, last_block) == 0

\* the TokenCount correction: 0 when the block ends where expected
TokenCountEvent(n, last_block) ==
    IF (~last_block /\ n # params.max_token_count) \/ n > params.max_token_count
    THEN n + 1 ELSE 0

\* the distance event once calculate_hops has answered
HopsEvent(kind, h) == [st |-> h.st, evs |-> <<Ev(kind, h.v)>>]

\* a variant that tells the two corrections apart by the distance alone
DistEventsByDist(tp, predicted_ref, target) ==
    IF target.dist # predicted_ref.dist
    THEN HopsEvent("DistOnlyCorrection", calculate_hops(tp, target))
    ELSE [st |-> "ok", evs |-> <<Ev("DistOnlyCorrection", 0)>>]

\* the distance events of predict_block for a reference target
DistEvents(tp, predicted_ref, target) ==
    IF predicted_ref.len # target.len
    THEN HopsEvent("DistAfterLenCorrection", calculate_hops(tp, target))
    ELSE IF target.dist # predicted_ref.dist
    THEN HopsEvent("DistOnlyCorrection", calculate_hops(tp, target))
    ELSE [st |-> "ok", evs |-> <<Ev("DistOnlyCorrection", 0)>>]

\* a variant that writes the flag of every reference
Irregular258EventsAlways(target) == <<Ev("IrregularLen258", IF target.irr THEN 1 ELSE 0)>>

\* the IrregularLen258 event of predict_block
Irregular258Events(target) ==
    IF target.len = 258 THEN <<Ev("IrregularLen258", IF target.irr THEN 1 ELSE 0)>> ELSE <<>>

\* LenCorrection, then the distance events d, then IrregularLen258
RefEventsWith(predicted_ref, target, d) ==
    IF d.st # "ok"
    THEN [st |-> d.st,
          evs |-> <<Ev("LenCorrection", encode_difference(predicted_ref.len, target.len))>>]
    ELSE [st |-> "ok",
          evs |-> <<Ev("LenCorrection", encode_difference(predicted_ref.len, target.len))>>
                  \o d.evs \o Irregular258Events(target)]

\* the events for a reference target once the predicted reference is known
RefEvents(tp, predicted_ref, target) ==
    RefEventsWith(predicted_ref, target, DistEvents(tp, predicted_ref, target))

\* a reference target: the events re after the misprediction event, and the commit
EncodedRef(tp, target, first, re) ==
    IF re.st # "ok" THEN EncOut(re.st, tp, first \o re.evs)
    ELSE EncOut("ok", commit_token(tp, target), first \o re.evs)

EncodeRef(tp, predicted_ref, target, first) ==
    EncodedRef(tp, target, first, RefEvents(tp, predicted_ref, target))

\* a reference target where a literal was predicted: rp is the repredicted reference
Repredicted(tp, target, rp) ==
    IF rp.st # "ok" THEN EncOut(rp.st, tp, <<Ev("LiteralPredictionWrong", 1)>>)
    ELSE EncodeRef([tp EXCEPT !.pending = NoRef], rp.ref, target,
                   <<Ev("LiteralPredictionWrong", 1)>>)

\* a variant that flags a literal target the same way whatever was predicted
PredictedOneLiteralFlag(tp, target, p) ==
    IF p.st # "ok" THEN EncOut(p.st, tp, <<>>)
    ELSE IF target.t = "L"
    THEN EncOut("ok", commit_token(tp, target), <<Ev("LiteralPredictionWrong", 0)>>)
    ELSE IF p.tok.t = "L" THEN Repredicted(tp, target, repredict_reference(tp))
    ELSE EncodeRef(tp, TokRef(p.tok), target, <<Ev("ReferencePredictionWrong", 0)>>)

\* one iteration of predict_block's loop once predict_token has answered p;
\* tp carries the pending_reference predict_token left
PredictedOne(tp, target, p) ==
    IF p.st # "ok" THEN EncOut(p.st, tp, <<>>)
    ELSE IF target.t = "L"
    THEN EncOut("ok", commit_token(tp, target),
                IF p.tok.t = "L" THEN <<Ev("LiteralPredictionWrong", 0)>>
                ELSE <<Ev("ReferencePredictionWrong", 1)>>)
    ELSE IF p.tok.t = "L" THEN Repredicted(tp, target, repredict_reference(tp))
    ELSE EncodeRef(tp, TokRef(p.tok), target, <<Ev("ReferencePredictionWrong", 0)>>)

\* predict_token stores the new pending_reference in the predictor
WithPendingMoved(tp, p) == [tp EXCEPT !.pending = p.pending, !.pos = tp.pos - 1]
WithPending(tp, p) == [tp EXCEPT !.pending = p.pending]

PredictOneFrom(tp, target, p) == PredictedOne(WithPending(tp, p), target, p)

\* one iteration of predict_block's loop over the target tokens
PredictOne(tp, target) == PredictOneFrom(tp, target, predict_token(tp))

RECURSIVE PredictLoop(_, _, _, _)
RECURSIVE PredictNext(_, _, _, _)
PredictNext(tokens, i, evs, r) ==
    IF r.st # "ok" THEN EncOut(r.st, r.tp, evs \o r.evs)
    ELSE PredictLoop(r.tp, tokens, i + 1, evs \o r.evs)

PredictLoop(tp, tokens, i, evs) ==
    IF i > Len(tokens) THEN EncOut("ok", tp, evs)
    ELSE PredictNext(tokens, i, evs, PredictOne(tp, tokens[i]))

\* current_token_count = 0, pending_reference = None
BlockStart(tp) == [tp EXCEPT !.count = 0, !.pending = NoRef]

\* a variant that writes the block type itself
BlockTypeEventRaw(block) == Ev("BlockTypeCorrection", block.block_type)

BlockTypeEvent(block) ==
    Ev("BlockTypeCorrection", encode_difference(BT_DYNAMICHUFF, block.block_type))

predict_block(tp0, block, last_block) ==
    IF block.block_type = BT_STORED
    THEN EncOut("ok", update_hash(BlockStart(tp0), block.uncompressed_len),
                <<BlockTypeEvent(block), Ev("Value16", block.uncompressed_len % 65536),
                  Ev("NonZeroPadding", block.padding_bits)>>)
    ELSE PredictLoop(BlockStart(tp0), block.tokens, 1,
                     <<BlockTypeEvent(block),
                       Ev("TokenCount", TokenCountEvent(Len(block.tokens), last_block))>>)

(***************************************************************************)
(* recreate_block.  The decoder reads the values of evs in order, from     *)
(* index idx on; kinds is the sequence of kinds it asked for.              *)
(***************************************************************************)
DecOut(status, tp, tok, idx, kinds) ==
    [st |-> status, tp |-> tp, tok |-> tok, idx |-> idx, kinds |-> kinds]

\* the IrregularLen258 read of recreate_block: the final reference and the commit
FinishRef(tp, r, evs, idx, kinds) ==
    IF r.len = 258
    THEN LET tok == Reference(Ref(r.len, r.dist, ValAt(evs, idx) # 0))
         IN  DecOut("ok", commit_token(tp, tok), tok, idx + 1, Append(kinds, "IrregularLen258"))
    ELSE DecOut("ok", commit_token(tp, Reference(r)), Reference(r), idx, kinds)

\* the reference of recreate_block once hop_match has answered hm
HopMatched(tp, len, evs, idx, kinds, hm) ==
    IF hm.st # "ok" THEN DecOut(hm.st, tp, Literal, idx, kinds)
    ELSE FinishRef(tp, Ref(len, hm.v, FALSE), evs, idx, kinds)

\* recreate_block from the distance read on, given the corrected length
CorrectDist(tp, predicted_ref, new_len, evs, idx, kinds) ==
    IF new_len < 0 THEN DecOut("panic", tp, Literal, idx, kinds)
    ELSE IF new_len # predicted_ref.len
    THEN HopMatched(tp, new_len, evs, idx + 1, Append(kinds, "DistAfterLenCorrection"),
                    hop_match(tp, new_len, ValAt(evs, idx)))
    ELSE IF ValAt(evs, idx) = 0
    THEN FinishRef(tp, predicted_ref, evs, idx + 1, Append(kinds, "DistOnlyCorrection"))
    ELSE HopMatched(tp, new_len, evs, idx + 1, Append(kinds, "DistOnlyCorrection"),
                    hop_match(tp, predicted_ref.len, ValAt(evs, idx)))

\* recreate_block from the LenCorrection read on, given the predicted reference
CorrectRef(tp, predicted_ref, evs, idx, kinds) ==
    CorrectDist(tp, predicted_ref, decode_difference(predicted_ref.len, ValAt(evs, idx)),
                evs, idx + 1, Append(kinds, "LenCorrection"))

\* a literal was predicted and refused: rp is the repredicted reference
RecreateRepredicted(tp, evs, idx, kinds, rp) ==
    IF rp.st # "ok" THEN DecOut(rp.st, tp, Literal, idx, kinds)
    ELSE CorrectRef([tp EXCEPT !.pending = NoRef], rp.ref, evs, idx, kinds)

\* one iteration of recreate_block's loop once predict_token has answered p;
\* tp carries the pending_reference predict_token left
RecreatedOne(tp, evs, idx, p) ==
    IF p.st # "ok" THEN DecOut(p.st, tp, Literal, idx, <<>>)
    ELSE IF p.tok.t = "L"
    THEN (IF ValAt(evs, idx) = 0
          THEN DecOut("ok", commit_token(tp, Literal), Literal, idx + 1,
                      <<"LiteralPredictionWrong">>)
          ELSE RecreateRepredicted(tp, evs, idx + 1, <<"LiteralPredictionWrong">>,
                                   repredict_reference(tp)))
    ELSE IF ValAt(evs, idx) # 0
    THEN DecOut("ok", commit_token(tp, Literal), Literal, idx + 1,
                <<"ReferencePredictionWrong">>)
    ELSE CorrectRef(tp, TokRef(p.tok), evs, idx + 1, <<"ReferencePredictionWrong">>)

RecreateOneFrom(tp, evs, idx, p) == RecreatedOne(WithPending(tp, p), evs, idx, p)

\* one iteration of recreate_block's loop
RecreateOne(tp, evs, idx) == RecreateOneFrom(tp, evs, idx, predict_token(tp))

RecOut(status, tp, block, idx, kinds) ==
    [st |-> status, tp |-> tp, block |-> block, idx |-> idx, kinds |-> kinds]

\* a variant that runs to the end of the input
LoopIgnoresLimit(tp, blocksize) == Remaining(tp) # 0

\* while !self.input_eof() && self.current_token_count < blocksize
LoopContinues(tp, blocksize) == Remaining(tp) # 0 /\ tp.count < blocksize

RECURSIVE RecreateLoop(_, _, _, _, _, _)
RECURSIVE RecreateNext(_, _, _, _, _)
RecreateNext(evs, blocksize, block, kinds, r) ==
    IF r.st # "ok" THEN RecOut(r.st, r.tp, block, r.idx, kinds \o r.kinds)
    ELSE RecreateLoop(r.tp, evs, r.idx, blocksize,
                      [block EXCEPT !.tokens = Append(@, r.tok)], kinds \o r.kinds)

RecreateLoop(tp, evs, idx, blocksize, block, kinds) ==
    IF Remaining(tp) < 0 THEN RecOut("panic", tp, block, idx, kinds)
    ELSE IF ~LoopContinues(tp, blocksize) THEN RecOut("ok", tp, block, idx, kinds)
    ELSE RecreateNext(evs, blocksize, block, kinds, RecreateOne(tp, evs, idx))

\* a variant that forgets the offset of one
BlockSizeNoOffset(v) == IF v = 0 THEN params.max_token_count ELSE v

\* TokenCount: 0 stands for max_token_count, v > 0 for v - 1
BlockSize(v) == IF v = 0 THEN params.max_token_count ELSE v - 1

\* recreate_block once the block type bt is decoded
RecreateTyped(tp, evs, bt) ==
    IF bt < 0 THEN RecOut("panic", tp, NewBlock(BT_STORED), 2, <<"BlockTypeCorrection">>)
    ELSE IF bt = BT_STORED
    THEN RecOut("ok", update_hash(tp, ValAt(evs, 2) % 65536),
                [NewBlock(BT_STORED) EXCEPT !.uncompressed_len = ValAt(evs, 2) % 65536,
                                            !.padding_bits = ValAt(evs, 3) % 256],
                4, <<"BlockTypeCorrection", "Value16", "NonZeroPadding">>)
    ELSE IF bt \notin {BT_STATICHUFF, BT_DYNAMICHUFF}
    THEN RecOut("err", tp, NewBlock(BT_STORED), 2, <<"BlockTypeCorrection">>)
    ELSE RecreateLoop(tp, evs, 3, BlockSize(ValAt(evs, 2)), NewBlock(bt),
                      <<"BlockTypeCorrection", "TokenCount">>)

recreate_block(tp0, evs) ==
    RecreateTyped(BlockStart(tp0), evs, decode_difference(BT_DYNAMICHUFF, ValAt(evs, 1)))

(***************************************************************************)
(* TreePredictor.  A bit-length vector is a sequence (index i + 1 holds    *)
(* symbol i); a slice symbols[off..] of it is the vector and the offset.   *)
(* A TokenFrequency table is kept sparse: the symbols with a count above   *)
(* zero and their counts.                                                  *)
(***************************************************************************)
NONLEN_CODE_COUNT == 257
CODETREE_CODE_COUNT == 19
TREE_CODE_ORDER_TABLE == <<16, 17, 18, 0, 8, 7, 9, 6, 10, 5, 11, 4, 12, 3, 13, 2, 14, 1, 15>>

TC_CODE == 0
TC_REPEAT == 1
TC_ZERO_SHORT == 2
TC_ZERO_LONG == 3

\* Vec::resize(n, 0)
Resize(v, n) == [i \in 1 .. n |-> IF i <= Len(v) THEN v[i] ELSE 0]

MaxOf(S) == CHOOSE x \in S : \A y \in S : y <= x
MinOf(S) == CHOOSE x \in S : \A y \in S : x <= y

(***************************************************************************)
(* calc_bit_lengths: Huffman code lengths of the symbols with a count      *)
(* above zero, trimmed after the last such symbol.  The two calculators    *)
(* break ties between equal weights differently.  The frequency tables     *)
(* drawn below never need more than max_bits bits.                         *)
(***************************************************************************)
Leaves(f) == { [w |-> f[s], syms |-> {s}, key |-> s] : s \in DOMAIN f }

Before(huffcalc, a, b) ==
    \/ a.w < b.w
    \/ a.w = b.w /\ (IF huffcalc = "Zlib" THEN a.key < b.key ELSE a.key > b.key)

Least(huffcalc, nodes) == CHOOSE a \in nodes : \A b \in nodes \ {a} : Before(huffcalc, a, b)

RECURSIVE Huff(_, _, _)
RECURSIVE HuffMerge(_, _, _, _, _)
HuffMerge(huffcalc, nodes, depth, a, b) ==
    Huff(huffcalc,
         (nodes \ {a, b}) \cup {[w |-> a.w + b.w, syms |-> a.syms \cup b.syms,
                                 key |-> 1000 + MinOf(a.syms \cup b.syms)]},
         [s \in DOMAIN depth |-> IF s \in a.syms \cup b.syms THEN depth[s] + 1 ELSE depth[s]])

HuffSecond(huffcalc, nodes, depth, a) ==
    HuffMerge(huffcalc, nodes, depth, a, Least(huffcalc, nodes \ {a}))

Huff(huffcalc, nodes, depth) ==
    IF Cardinality(nodes) < 2 THEN depth
    ELSE HuffSecond(huffcalc, nodes, depth, Least(huffcalc, nodes))

BitLengthsFrom(f, depth, max_bits) ==
    [i \in 1 .. (MaxOf(DOMAIN f) + 1) |->
        IF (i - 1) \in DOMAIN f THEN Min(depth[i - 1], max_bits) ELSE 0]

calc_bit_lengths(huffcalc, f, max_bits) ==
    IF DOMAIN f = {} THEN <<>>
    ELSE IF Cardinality(DOMAIN f) = 1 THEN BitLengthsFrom(f, [s \in DOMAIN f |-> 1], max_bits)
    ELSE BitLengthsFrom(f, Huff(huffcalc, Leaves(f), [s \in DOMAIN f |-> 0]), max_bits)

(***************************************************************************)
(* The RLE prediction rules.                                               *)
(***************************************************************************)
\* the loop "while curlen < max_cur_len && sym_bit_len[curlen] == code":
\* the first index from curlen on where it stops
RunFrom(v, off, curlen, max_cur_len, code) ==
    IF curlen >= max_cur_len THEN curlen
    ELSE CHOOSE k \in curlen .. max_cur_len :
             /\ k = max_cur_len \/ v[off + k + 1] # code
             /\ \A j \in curlen .. (k - 1) : v[off + j + 1] = code

ZeroTypeEarly(curlen) ==
    IF curlen >= 10 THEN TC_ZERO_LONG ELSE IF curlen >= 3 THEN TC_ZERO_SHORT ELSE TC_CODE

ZeroType(curlen) ==
    IF curlen >= 11 THEN TC_ZERO_LONG ELSE IF curlen >= 3 THEN TC_ZERO_SHORT ELSE TC_CODE

\* previous_code = -1 stands for None
predict_code_type(v, off, previous_code) ==
    IF v[off + 1] = 0 THEN ZeroType(RunFrom(v, off, 1, Min(Len(v) - off, 11), 0))
    ELSE IF previous_code # -1
    THEN (IF RunFrom(v, off, 0, Len(v) - off, previous_code) >= 3 THEN TC_REPEAT ELSE TC_CODE)
    ELSE TC_CODE

predict_code_data(v, off, code_type) ==
    IF code_type = TC_CODE THEN v[off + 1]
    ELSE IF code_type = TC_REPEAT THEN RunFrom(v, off, 3, Min(Len(v) - off, 6), v[off + 1])
    ELSE IF code_type = TC_ZERO_SHORT THEN RunFrom(v, off, 3, Min(Len(v) - off, 10), 0)
    ELSE RunFrom(v, off, 11, Min(Len(v) - off, 138), 0)

\* an entry of HuffmanOriginalEncoding::lengths
Rle(t, d) == [t |-> t, d |-> d]

\* the symbols an entry stands for
Expanded(e) == IF e.t = TC_CODE THEN 1 ELSE e.d

RECURSIVE RleSum(_, _)
RleSum(codes, i) == IF i > Len(codes) THEN 0 ELSE Expanded(codes[i]) + RleSum(codes, i + 1)

\* the code-tree symbol of an entry
TreeSymbol(e) ==
    IF e.t = TC_CODE THEN e.d
    ELSE IF e.t = TC_REPEAT THEN 16 ELSE IF e.t = TC_ZERO_SHORT THEN 17 ELSE 18

\* calc_codetree_freq, as a sparse table; bl_freqs[data] is out of range for
\* a Code entry of 19 or more
calc_codetree_freq(codes) ==
    IF \E i \in 1 .. Len(codes) : codes[i].t = TC_CODE /\ codes[i].d >= CODETREE_CODE_COUNT
    THEN [st |-> "panic", f |-> <<>>]
    ELSE [st |-> "ok",
          f |-> [s \in {TreeSymbol(codes[i]) : i \in 1 .. Len(codes)} |->
                    Cardinality({i \in 1 .. Len(codes) : TreeSymbol(codes[i]) = s})]]

\* the loop of calc_tc_lengths_without_trailing_zeros; -1 stands for an
\* index out of range
RECURSIVE TcLoop(_, _)
TcLoop(bit_lengths, len) ==
    IF len > 4
    THEN (IF TREE_CODE_ORDER_TABLE[len] >= Len(bit_lengths) THEN -1
          ELSE IF bit_lengths[TREE_CODE_ORDER_TABLE[len] + 1] = 0 THEN TcLoop(bit_lengths, len - 1)
          ELSE len)
    ELSE len

calc_tc_lengths_without_trailing_zeros(bit_lengths) == TcLoop(bit_lengths, Len(bit_lengths))

(***************************************************************************)
(* predict_ld_trees and reconstruct_ld_trees.                              *)
(***************************************************************************)
TreeOut(status, evs) == [st |-> status, evs |-> evs]

\* the two corrections predict_ld_trees emits for the target entry e
LdEvents(v, off, prev_code, e) ==
    << Ev("LDTypeCorrection", encode_difference(predict_code_type(v, off, prev_code), e.t)),
       Ev(IF e.t # TC_CODE THEN "RepeatCountCorrection" ELSE "LDBitLengthCorrection",
          encode_difference(predict_code_data(v, off, e.t), e.d)) >>

RECURSIVE LdLoop(_, _, _, _, _, _)
LdLoop(v, off, prev_code, targets, i, evs) ==
    IF i > Len(targets) THEN TreeOut("ok", evs)
    ELSE IF off >= Len(v) THEN TreeOut("err", evs)
    ELSE LdLoop(v, off + Expanded(targets[i]), v[off + 1], targets, i + 1,
                evs \o LdEvents(v, off, prev_code, targets[i]))

\* the assert_eq on the RLE sum comes first
predict_ld_trees(predicted_bit_len, actual_target_codes) ==
    IF RleSum(actual_target_codes, 1) # Len(predicted_bit_len) THEN TreeOut("panic", <<>>)
    ELSE LdLoop(predicted_bit_len, 0, -1, actual_target_codes, 1, <<>>)

LdOut(status, lengths, idx, kinds) ==
    [st |-> status, lengths |-> lengths, idx |-> idx, kinds |-> kinds]

\* one iteration of reconstruct_ld_trees: RcLoop up to the type read, RcTyped
\* up to the data read, RcData the push and the advance of symbols
RECURSIVE RcLoop(_, _, _, _, _, _, _)
RECURSIVE RcTyped(_, _, _, _, _, _, _)
RECURSIVE RcData(_, _, _, _, _, _, _, _)
RcData(v, off, evs, idx, result, kinds, t, d) ==
    IF d < 0 THEN LdOut("panic", result, idx, kinds)
    ELSE IF (IF t = TC_CODE THEN 1 ELSE d % 256) > Len(v) - off
    THEN LdOut("panic", Append(result, Rle(t, d % 256)), idx, kinds)
    ELSE RcLoop(v, off + (IF t = TC_CODE THEN 1 ELSE d % 256), v[off + 1], evs, idx,
                Append(result, Rle(t, d % 256)), kinds)

RcTyped(v, off, evs, idx, result, kinds, t) ==
    IF t < 0 THEN LdOut("panic", result, idx + 1, Append(kinds, "LDTypeCorrection"))
    ELSE IF t \notin {TC_CODE, TC_REPEAT, TC_ZERO_SHORT, TC_ZERO_LONG}
    THEN LdOut("err", result, idx + 1, Append(kinds, "LDTypeCorrection"))
    ELSE RcData(v, off, evs, idx + 2, result,
                kinds \o << "LDTypeCorrection",
                            IF t # TC_CODE THEN "RepeatCountCorrection"
                            ELSE "LDBitLengthCorrection" >>,
                t, decode_difference(predict_code_data(v, off, t), ValAt(evs, idx + 1)))

RcLoop(v, off, prev_code, evs, idx, result, kinds) ==
    IF off >= Len(v) THEN LdOut("ok", result, idx, kinds)
    ELSE RcTyped(v, off, evs, idx, result, kinds,
                 decode_difference(predict_code_type(v, off, prev_code), ValAt(evs, idx)))

reconstruct_ld_trees(sym_bit_len, evs, idx, kinds) ==
    RcLoop(sym_bit_len, 0, -1, evs, idx, <<>>, kinds)

(***************************************************************************)
(* predict_tree_for_block.                                                 *)
(***************************************************************************)
Header(nl, nd, ncl, lengths, code_lengths) ==
    [ num_literals |-> nl, num_dist |-> nd, num_code_lengths |-> ncl,
      lengths |-> lengths, code_lengths |-> code_lengths ]

\* HuffmanOriginalEncoding::default()
NoHeader == Header(0, 0, 0, <<>>, [k \in 1 .. CODETREE_CODE_COUNT |-> 0])

\* a variant that flags the counts that were predicted
CountEventsInverted(kind, raw, predicted, actual, base) ==
    IF predicted = actual THEN <<Ev(kind, 1), Ev(raw, actual - base)>> ELSE <<Ev(kind, 0)>>

\* a count misprediction and, when set, the actual count as a raw value
CountEvents(kind, raw, predicted, actual, base) ==
    IF predicted # actual THEN <<Ev(kind, 1), Ev(raw, actual - base)>> ELSE <<Ev(kind, 0)>>

\* the TreeCodeBitLengthCorrection events, in TREE_CODE_ORDER_TABLE order
CodeLengthEvents(h, tc_code_tree) ==
    [ i \in 1 .. h.num_code_lengths |->
        Ev("TreeCodeBitLengthCorrection",
           encode_difference(tc_code_tree[TREE_CODE_ORDER_TABLE[i] + 1],
                             h.code_lengths[TREE_CODE_ORDER_TABLE[i] + 1])) ]

PredictTreeFinish(h, evs, tc_code_tree, tc_code_tree_len) ==
    IF tc_code_tree_len < 0 THEN TreeOut("panic", evs)
    ELSE IF \/ tc_code_tree_len # h.num_code_lengths /\ h.num_code_lengths < 4
            \/ h.num_code_lengths > CODETREE_CODE_COUNT
    THEN TreeOut("panic", evs)
    ELSE TreeOut("ok", evs \o CountEvents("TreeCodeCountMisprediction", "Value4",
                                          tc_code_tree_len, h.num_code_lengths, 4)
                       \o CodeLengthEvents(h, tc_code_tree))

PredictTreeCodes(h, evs, tc_code_tree) ==
    PredictTreeFinish(h, evs, Resize(tc_code_tree, CODETREE_CODE_COUNT),
                      calc_tc_lengths_without_trailing_zeros(tc_code_tree))

PredictTreeTc(h, huffcalc, evs, codetree_freq) ==
    IF codetree_freq.st # "ok" THEN TreeOut(codetree_freq.st, evs)
    ELSE PredictTreeCodes(h, evs, calc_bit_lengths(huffcalc, codetree_freq.f, 7))

PredictTreeLd(h, huffcalc, evs, ld) ==
    IF ld.st # "ok" THEN TreeOut(ld.st, evs \o ld.evs)
    ELSE PredictTreeTc(h, huffcalc, evs \o ld.evs, calc_codetree_freq(h.lengths))

PredictTreeWith(h, huffcalc, bit_lengths, distance_code_lengths) ==
    IF \/ Len(bit_lengths) # h.num_literals /\ h.num_literals < NONLEN_CODE_COUNT
       \/ Len(distance_code_lengths) # h.num_dist /\ h.num_dist < 1
    THEN TreeOut("panic", <<>>)
    ELSE PredictTreeLd(h, huffcalc,
                       CountEvents("LiteralCountMisprediction", "Value5", Len(bit_lengths),
                                   h.num_literals, NONLEN_CODE_COUNT)
                       \o CountEvents("DistanceCountMisprediction", "Value5",
                                      Len(distance_code_lengths), h.num_dist, 1),
                       predict_ld_trees(Resize(bit_lengths, h.num_literals)
                                        \o Resize(distance_code_lengths, h.num_dist),
                                        h.lengths))

predict_tree_for_block(h, freq, huffcalc) ==
    PredictTreeWith(h, huffcalc, calc_bit_lengths(huffcalc, freq.literal_codes, 15),
                    calc_bit_lengths(huffcalc, freq.distance_codes, 15))

(***************************************************************************)
(* recreate_tree_for_block.                                                *)
(***************************************************************************)
HeaderOut(status, header, idx, kinds) ==
    [st |-> status, header |-> header, idx |-> idx, kinds |-> kinds]

\* the loop over TREE_CODE_ORDER_TABLE that fills result.code_lengths
DecodedCodeLength(evs, idx, tc_code_tree, i) ==
    decode_difference(tc_code_tree[TREE_CODE_ORDER_TABLE[i] + 1], ValAt(evs, idx + i - 1))

RecreateHeader(evs, nl, nd, lengths, tc_code_tree, tc_code_tree_len, idx, kinds) ==
    IF \E i \in 1 .. tc_code_tree_len : DecodedCodeLength(evs, idx, tc_code_tree, i) < 0
    THEN HeaderOut("panic", NoHeader, idx, kinds)
    ELSE HeaderOut("ok",
                   Header(nl, nd, tc_code_tree_len, lengths,
                          [ k \in 1 .. CODETREE_CODE_COUNT |->
                              IF \E i \in 1 .. tc_code_tree_len : TREE_CODE_ORDER_TABLE[i] + 1 = k
                              THEN DecodedCodeLength(evs, idx, tc_code_tree,
                                      CHOOSE i \in 1 .. tc_code_tree_len :
                                          TREE_CODE_ORDER_TABLE[i] + 1 = k) % 256
                              ELSE 0 ]),
                   idx + tc_code_tree_len,
                   kinds \o [i \in 1 .. tc_code_tree_len |-> "TreeCodeBitLengthCorrection"])

RecreateFinish(evs, nl, nd, rc, tc_code_tree, tc_code_tree_len) ==
    IF tc_code_tree_len < 0 THEN HeaderOut("panic", NoHeader, rc.idx, rc.kinds)
    ELSE IF ValAt(evs, rc.idx) # 0
    THEN RecreateHeader(evs, nl, nd, rc.lengths, tc_code_tree,
                        (ValAt(evs, rc.idx + 1) % 16) + 4, rc.idx + 2,
                        rc.kinds \o <<"TreeCodeCountMisprediction", "Value4">>)
    ELSE RecreateHeader(evs, nl, nd, rc.lengths, tc_code_tree, tc_code_tree_len, rc.idx + 1,
                        Append(rc.kinds, "TreeCodeCountMisprediction"))

RecreateCodes(evs, nl, nd, rc, tc_code_tree) ==
    RecreateFinish(evs, nl, nd, rc, Resize(tc_code_tree, CODETREE_CODE_COUNT),
                   calc_tc_lengths_without_trailing_zeros(tc_code_tree))

RecreateTc(evs, huffcalc, nl, nd, rc, bl_freqs) ==
    IF bl_freqs.st # "ok" THEN HeaderOut(bl_freqs.st, NoHeader, rc.idx, rc.kinds)
    ELSE RecreateCodes(evs, nl, nd, rc, calc_bit_lengths(huffcalc, bl_freqs.f, 7))

RecreateLd(evs, huffcalc, nl, nd, rc) ==
    IF rc.st # "ok" THEN HeaderOut(rc.st, NoHeader, rc.idx, rc.kinds)
    ELSE RecreateTc(evs, huffcalc, nl, nd, rc, calc_codetree_freq(rc.lengths))

\* the distance count correction as the source applies it: line 120 resizes
\* bit_lengths (the literal lengths), and distance_code_lengths stays as predicted
DistanceCorrected(bit_lengths, distance_code_lengths, corrected_num_distance) ==
    Resize(bit_lengths, corrected_num_distance) \o distance_code_lengths

\* from the DistanceCountMisprediction read on; result.num_literals is the
\* length of bit_lengths before it, result.num_dist the predicted length
RecreateDist(evs, huffcalc, bit_lengths, distance_code_lengths, idx, kinds) ==
    IF ValAt(evs, idx) # 0
    THEN RecreateLd(evs, huffcalc, Len(bit_lengths), Len(distance_code_lengths),
                    reconstruct_ld_trees(
                        DistanceCorrected(bit_lengths, distance_code_lengths,
                                          (ValAt(evs, idx + 1) % 32) + 1),
                        evs, idx + 2, kinds \o <<"DistanceCountMisprediction", "Value5">>))
    ELSE RecreateLd(evs, huffcalc, Len(bit_lengths), Len(distance_code_lengths),
                    reconstruct_ld_trees(bit_lengths \o distance_code_lengths, evs, idx + 1,
                                         Append(kinds, "DistanceCountMisprediction")))

RecreateLit(evs, huffcalc, bit_lengths, distance_code_lengths) ==
    IF ValAt(evs, 1) # 0
    THEN RecreateDist(evs, huffcalc,
                      Resize(bit_lengths, (ValAt(evs, 2) % 32) + NONLEN_CODE_COUNT),
                      distance_code_lengths, 3, <<"LiteralCountMisprediction", "Value5">>)
    ELSE RecreateDist(evs, huffcalc, bit_lengths, distance_code_lengths, 2,
                      <<"LiteralCountMisprediction">>)

recreate_tree_for_block(freq, evs, huffcalc) ==
    RecreateLit(evs, huffcalc, calc_bit_lengths(huffcalc, freq.literal_codes, 15),
                calc_bit_lengths(huffcalc, freq.distance_codes, 15))

(***************************************************************************)
(* SpecState: a PredictorState driven by update_hash and skip_hash.        *)
(***************************************************************************)
\* no TreePredictor run
TreeIdle == [pc |-> "idle"]

EstIdle == [pc |-> "idle"]

ReaderIdle == [pc |-> "idle"]

TokIdle ==
    /\ enc = NewPredictor
    /\ dec = NewPredictor
    /\ cur_block = NewBlock(BT_STORED)
    /\ cur_last = FALSE
    /\ events = [st |-> "none", evs |-> <<>>]
    /\ rec = [st |-> "none", block |-> NewBlock(BT_STORED), kinds |-> <<>>]
    /\ pc = "idle"
    /\ blocks_done = 0

InitState ==
    /\ plain_text \in Plaintexts
    /\ params \in ParamSets
    /\ st = NewState
    /\ op = [name |-> "new", n |-> 0, old_pos |-> 0]
    /\ est = EstIdle
    /\ reader = ReaderIdle
    /\ TokIdle
    /\ tree = TreeIdle

UpdateHash ==
    \E n \in 0 .. Remaining(st) :
        /\ st' = update_hash(st, n)
        /\ op' = [name |-> "update_hash", n |-> n, old_pos |-> st.pos]
        /\ UNCHANGED <<plain_text, params, tokVars, est, reader>>

SkipHash ==
    \E n \in 0 .. Remaining(st) :
        /\ st' = skip_hash(st, n)
        /\ op' = [name |-> "skip_hash", n |-> n, old_pos |-> st.pos]
        /\ UNCHANGED <<plain_text, params, tokVars, est, reader>>

NextState == UpdateHash \/ SkipHash

vars == <<plain_text, params, st, op, enc, dec, cur_block, cur_last, events, rec, pc, blocks_done, tree,
          est, reader>>

SpecState == InitState /\ [][NextState]_vars

(***************************************************************************)
(* Spec: the encode path and the decode path of the TokenPredictor over    *)
(* the same plaintext, block by block.  predict_block is handed a block    *)
(* whose tokens are valid for the plaintext; recreate_block is fed the     *)
(* events predict_block emitted.                                           *)
(***************************************************************************)
\* the tokens a DEFLATE stream can hold at position p of the plaintext
ValidTokens(p) ==
    (IF p < InputSize THEN {Literal} ELSE {})
    \cup { t \in { Reference(Ref(l, d, i)) :
                     l \in MIN_MATCH .. Min(InputSize - p, MAX_MATCH), d \in 1 .. p,
                     i \in BOOLEAN } :
             /\ t.irr => t.len = 258
             /\ \A i \in 0 .. (t.len - 1) : ByteAt(p - t.dist + i) = ByteAt(p + i) }

\* the token sequences of at most k tokens that are valid from position p on
RECURSIVE ValidTokSeqs(_, _)
ValidTokSeqs(p, k) ==
    IF k = 0 THEN {<<>>}
    ELSE {<<>>} \cup UNION { { <<t>> \o rest : rest \in ValidTokSeqs(p + t.len, k - 1) } :
                              t \in ValidTokens(p) }

PaddingValues == {0, 5}

RECURSIVE SumLen(_, _)
SumLen(tokens, i) == IF i > Len(tokens) THEN 0 ELSE tokens[i].len + SumLen(tokens, i + 1)

\* the plaintext bytes a block covers
BlockBytes(b) == IF b.block_type = BT_STORED THEN b.uncompressed_len ELSE SumLen(b.tokens, 1)

ValidBlocks(p) ==
    { [NewBlock(BT_STORED) EXCEPT !.uncompressed_len = n, !.padding_bits = pad] :
        n \in 0 .. (InputSize - p), pad \in PaddingValues }
    \cup { [NewBlock(bt) EXCEPT !.tokens = toks] :
             bt \in {BT_STATICHUFF, BT_DYNAMICHUFF}, toks \in ValidTokSeqs(p, MaxBlockTokens) }

Init ==
    /\ plain_text \in Plaintexts
    /\ params \in ParamSets
    /\ st = NewState
    /\ op = [name |-> "new", n |-> 0, old_pos |-> 0]
    /\ est = EstIdle
    /\ reader = ReaderIdle
    /\ enc = NewPredictor
    /\ dec = NewPredictor
    /\ cur_block = NewBlock(BT_STORED)
    /\ cur_last = FALSE
    /\ events = [st |-> "none", evs |-> <<>>]
    /\ rec = [st |-> "none", block |-> NewBlock(BT_STORED), kinds |-> <<>>]
    /\ pc = "predict"
    /\ blocks_done = 0
    /\ tree = TreeIdle

\* the encoder after predict_block returned r
Predicted(r) ==
    /\ enc' = r.tp
    /\ events' = [st |-> r.st, evs |-> r.evs]
    /\ pc' = IF r.st = "ok" THEN "recreate" ELSE "failed"

\* the decoder after recreate_block returned r
Recreates(r) ==
    /\ dec' = r.tp
    /\ rec' = [st |-> r.st, block |-> r.block, kinds |-> r.kinds]

\* the encode path: predict_block on the next block of the stream; the last
\* block of a stream ends where the plaintext ends
PredictBlock ==
    /\ pc = "predict"
    /\ blocks_done < MaxBlocks
    /\ \E b \in ValidBlocks(enc.pos), last \in BOOLEAN :
          /\ last => enc.pos + BlockBytes(b) = InputSize
          /\ Predicted(predict_block(enc, b, last))
          /\ cur_block' = b
          /\ cur_last' = last
    /\ blocks_done' = blocks_done + 1
    /\ UNCHANGED <<plain_text, params, hashVars, est, reader, dec, rec, tree>>

\* the decode path: recreate_block on the events of that block
RecreateBlock ==
    /\ pc = "recreate"
    /\ Recreates(recreate_block(dec, events.evs))
    /\ pc' = IF cur_last THEN "done" ELSE "predict"
    /\ UNCHANGED <<plain_text, params, hashVars, est, reader, enc, cur_block, cur_last, events, blocks_done, tree>>

Next == PredictBlock \/ RecreateBlock

Spec == Init /\ [][Next]_vars

(***************************************************************************)
(* SpecFuzz: the decode path alone.  recreate_block runs on a fresh        *)
(* predictor and is fed by a decoder that delivers any values: MaxFuzzLen  *)
(* values of at most MaxFuzzVal, then defaults.                            *)
(***************************************************************************)
FuzzValues == 0 .. MaxFuzzVal

FuzzEvents ==
    { [i \in 1 .. MaxFuzzLen |-> Ev("any", f[i])] : f \in [1 .. MaxFuzzLen -> FuzzValues] }

InitFuzz ==
    /\ plain_text \in SeqsUpTo(Bytes, MaxInputLen)
    /\ params \in ParamSets
    /\ st = NewState
    /\ op = [name |-> "new", n |-> 0, old_pos |-> 0]
    /\ est = EstIdle
    /\ reader = ReaderIdle
    /\ enc = NewPredictor
    /\ dec = NewPredictor
    /\ cur_block = NewBlock(BT_STORED)
    /\ cur_last = FALSE
    /\ events = [st |-> "none", evs |-> <<>>]
    /\ rec = [st |-> "none", block |-> NewBlock(BT_STORED), kinds |-> <<>>]
    /\ pc = "fuzz"
    /\ blocks_done = 0
    /\ tree = TreeIdle

\* the decoder after recreate_block returned r on the values evs
FuzzRecreated(evs, r) ==
    /\ Recreates(r)
    /\ events' = [st |-> "fuzz", evs |-> evs]
    /\ pc' = IF r.st = "ok" THEN "fuzz" ELSE "stopped"

FuzzRecreate ==
    /\ pc = "fuzz"
    /\ blocks_done < MaxFuzzBlocks
    /\ \E evs \in FuzzEvents : FuzzRecreated(evs, recreate_block(dec, evs))
    /\ blocks_done' = blocks_done + 1
    /\ UNCHANGED <<plain_text, params, hashVars, est, reader, enc, cur_block, cur_last, tree>>

NextFuzz == FuzzRecreate

SpecFuzz == InitFuzz /\ [][NextFuzz]_vars

(***************************************************************************)
(* SpecTree: the TreePredictor.  predict_tree_for_block is handed a        *)
(* header for the block's frequencies and recreate_tree_for_block is fed   *)
(* the events it emitted; recreate_tree_for_block is also run on a decoder *)
(* that delivers defaults only, its header handed back to                  *)
(* predict_tree_for_block, and on a decoder that delivers any values.      *)
(***************************************************************************)
\* literal/length counts: those of the source's tests (literals 0..2 counted
\* 100, 50, 25), equal counts, two literals far from 0, a length code in
\* use, and no literal at all; the end-of-block symbol 256 is counted once
LitTables ==
    { (0 :> 100 @@ 1 :> 50 @@ 2 :> 25 @@ 256 :> 1),
      (0 :> 10 @@ 1 :> 10 @@ 2 :> 10 @@ 3 :> 10 @@ 256 :> 1),
      (65 :> 3 @@ 66 :> 2 @@ 256 :> 1),
      (97 :> 4 @@ 256 :> 1 @@ 257 :> 2),
      (256 :> 1) }

\* distance counts: those of the source's tests, equal counts, a gap, one
\* distance code, and a block without references
DistTables ==
    { (0 :> 100 @@ 1 :> 50 @@ 2 :> 25),
      (0 :> 1 @@ 1 :> 1 @@ 2 :> 1 @@ 3 :> 1),
      (0 :> 5 @@ 4 :> 3),
      (0 :> 2),
      <<>> }

Freqs == { [literal_codes |-> l, distance_codes |-> d] : l \in LitTables, d \in DistTables }

HuffCalcs == {"Miniz", "Zlib"}

\* an RLE of the vector v from offset off on; "greedy" takes the entry the
\* prediction rules give, "norepeat" writes a repeat as single codes,
\* "shortzero" writes a long run of zeros as short ones
Styles == {"greedy", "norepeat", "shortzero"}

StyleType(style, t) ==
    IF style = "norepeat" /\ t = TC_REPEAT THEN TC_CODE
    ELSE IF style = "shortzero" /\ t = TC_ZERO_LONG THEN TC_ZERO_SHORT
    ELSE t

RECURSIVE StyledFrom(_, _, _, _)
RECURSIVE StyledNext(_, _, _, _)
StyledNext(style, v, off, e) ==
    <<e>> \o StyledFrom(style, v, off + Expanded(e), v[off + 1])

StyledEntry(style, v, off, t) == StyledNext(style, v, off, Rle(t, predict_code_data(v, off, t)))

StyledFrom(style, v, off, prev_code) ==
    IF off >= Len(v) THEN <<>>
    ELSE StyledEntry(style, v, off, StyleType(style, predict_code_type(v, off, prev_code)))

\* the smallest count in 4 .. 19 that keeps every non-zero entry of t
MinimalCount(t) ==
    MinOf({ n \in 4 .. CODETREE_CODE_COUNT :
              \A i \in (n + 1) .. CODETREE_CODE_COUNT :
                  TREE_CODE_ORDER_TABLE[i] + 1 > Len(t) \/ t[TREE_CODE_ORDER_TABLE[i] + 1] = 0 })

\* the code lengths of a header: the lengths t of the code tree, the length
\* of symbol 0 changed when edit is set
EditedCodeLengths(t, edit) ==
    [k \in 1 .. CODETREE_CODE_COUNT |-> IF k = 1 /\ edit > 0 THEN ((t[k] + edit) % 7) + 1 ELSE t[k]]

\* the literal/length and distance lengths of a header: the vector v, its
\* first length changed when edit is set
EditedLengths(v, edit) ==
    [i \in 1 .. Len(v) |-> IF i = 1 /\ edit > 0 THEN ((v[i] + edit) % 15) + 1 ELSE v[i]]

HeadersOver(nl, nd, lengths, t) ==
    { Header(nl, nd, ncl, lengths, EditedCodeLengths(t, edit)) :
        ncl \in {MinimalCount(t), CODETREE_CODE_COUNT}, edit \in 0 .. MaxLengthEdit }

HeadersCoded(huffcalc, nl, nd, lengths) ==
    HeadersOver(nl, nd, lengths,
                Resize(calc_bit_lengths(huffcalc, calc_codetree_freq(lengths).f, 7),
                       CODETREE_CODE_COUNT))

HeadersSized(huffcalc, nl, nd, v) ==
    UNION { HeadersCoded(huffcalc, nl, nd, StyledFrom(style, EditedLengths(v, edit), 0, -1)) :
              style \in Styles, edit \in 0 .. MaxLengthEdit }

HeadersFrom(huffcalc, lit, dist) ==
    UNION { HeadersSized(huffcalc, Len(lit) + dl, Max(Len(dist), 1) + dd,
                         Resize(lit, Len(lit) + dl) \o Resize(dist, Max(Len(dist), 1) + dd)) :
              dl \in 0 .. MaxCountDelta, dd \in 0 .. MaxCountDelta }

\* headers a DEFLATE stream can carry for a block of the frequencies freq:
\* at least 257 literal/length codes and at least one distance code
Headers(freq, huffcalc) ==
    HeadersFrom(huffcalc, calc_bit_lengths(huffcalc, freq.literal_codes, 15),
                calc_bit_lengths(huffcalc, freq.distance_codes, 15))

TreeRun(p, freq, huffcalc, header, evs, status, result, kinds) ==
    [ pc |-> p, freq |-> freq, huffcalc |-> huffcalc, header |-> header, evs |-> evs,
      st |-> status, result |-> result, kinds |-> kinds ]

InitTree ==
    /\ plain_text = <<>>
    /\ params = ZlibSlowParams
    /\ st = NewState
    /\ op = [name |-> "new", n |-> 0, old_pos |-> 0]
    /\ est = EstIdle
    /\ reader = ReaderIdle
    /\ TokIdle
    /\ \E freq \in Freqs, huffcalc \in HuffCalcs :
           tree = TreeRun("start", freq, huffcalc, NoHeader, <<>>, "none", NoHeader, <<>>)

\* predict_tree_for_block returned r for the header h
TreePredicted(p, h, r) ==
    tree' = [tree EXCEPT !.pc = p, !.header = h, !.evs = r.evs, !.st = r.st]

\* recreate_tree_for_block returned r on the values evs
TreeRecreated(p, evs, r) ==
    tree' = [tree EXCEPT !.pc = p, !.evs = evs, !.st = r.st, !.result = r.header,
                         !.kinds = r.kinds]

PredictTree ==
    /\ tree.pc = "start"
    /\ \E h \in Headers(tree.freq, tree.huffcalc) :
           TreePredicted("predicted", h, predict_tree_for_block(h, tree.freq, tree.huffcalc))
    /\ UNCHANGED <<plain_text, params, hashVars, est, reader, enc, dec, cur_block, cur_last, events, rec, pc,
                   blocks_done>>

RecreateTree ==
    /\ tree.pc = "predicted"
    /\ tree.st = "ok"
    /\ TreeRecreated("recreated", tree.evs,
                     recreate_tree_for_block(tree.freq, tree.evs, tree.huffcalc))
    /\ UNCHANGED <<plain_text, params, hashVars, est, reader, enc, dec, cur_block, cur_last, events, rec, pc,
                   blocks_done>>

RecreateDefault ==
    /\ tree.pc = "start"
    /\ TreeRecreated("default", <<>>, recreate_tree_for_block(tree.freq, <<>>, tree.huffcalc))
    /\ UNCHANGED <<plain_text, params, hashVars, est, reader, enc, dec, cur_block, cur_last, events, rec, pc,
                   blocks_done>>

PredictDefault ==
    /\ tree.pc = "default"
    /\ tree.st = "ok"
    /\ TreePredicted("repredicted", tree.result,
                     predict_tree_for_block(tree.result, tree.freq, tree.huffcalc))
    /\ UNCHANGED <<plain_text, params, hashVars, est, reader, enc, dec, cur_block, cur_last, events, rec, pc,
                   blocks_done>>

RecreateAny ==
    /\ tree.pc = "start"
    /\ \E evs \in FuzzEvents :
           TreeRecreated("fuzzed", evs, recreate_tree_for_block(tree.freq, evs, tree.huffcalc))
    /\ UNCHANGED <<plain_text, params, hashVars, est, reader, enc, dec, cur_block, cur_last, events, rec, pc,
                   blocks_done>>

NextTree ==
    \/ PredictTree
    \/ RecreateTree
    \/ RecreateDefault
    \/ PredictDefault
    \/ RecreateAny

SpecTree == InitTree /\ [][NextTree]_vars

(***************************************************************************)
(* SpecTc: calc_tc_lengths_without_trailing_zeros applied to a code-tree   *)
(* bit-length vector of length 1 .. 19 with at most two non-zero entries.  *)
(***************************************************************************)
TcVectors ==
    { [i \in 1 .. len |-> IF i \in {a, b} THEN 1 ELSE 0] :
        len \in 1 .. CODETREE_CODE_COUNT, a \in 0 .. CODETREE_CODE_COUNT,
        b \in 0 .. CODETREE_CODE_COUNT }

InitTc ==
    /\ plain_text = <<>>
    /\ params = ZlibSlowParams
    /\ st = NewState
    /\ op = [name |-> "new", n |-> 0, old_pos |-> 0]
    /\ est = EstIdle
    /\ reader = ReaderIdle
    /\ TokIdle
    /\ \E t \in TcVectors : tree = [pc |-> "tc", t |-> t, n |-> 0]

CalcTc ==
    /\ tree.pc = "tc"
    /\ tree' = [tree EXCEPT !.pc = "counted",
                            !.n = calc_tc_lengths_without_trailing_zeros(tree.t)]
    /\ UNCHANGED <<plain_text, params, hashVars, est, reader, enc, dec, cur_block, cur_last, events, rec, pc,
                   blocks_done>>

NextTc == CalcTc

SpecTc == InitTc /\ [][NextTc]_vars

(***************************************************************************)
(* C9.  Hash-chain monotonicity: after update_hash(n) the input position   *)
(* has advanced by exactly n and every position of [old_pos, old_pos + n)  *)
(* that has a full 3-byte window is reachable by walking the chain from    *)
(* the head of its hash; after skip_hash(n) the position has advanced by   *)
(* exactly n as well.                                                      *)
(***************************************************************************)
HashChainMonotonic ==
    /\ op.name = "update_hash" =>
          /\ st.pos = op.old_pos + op.n
          /\ \A p \in op.old_pos .. (op.old_pos + op.n - 1) :
                p + 2 < InputSize => Reachable(st, p)
    /\ op.name = "skip_hash" => st.pos = op.old_pos + op.n

\* an update_hash over several positions, one of which is reached only by
\* walking past a newer entry of the same hash
HashChainMonotonicWitness ==
    /\ op.name = "update_hash"
    /\ op.n >= 2
    /\ op.old_pos > 0
    /\ \E p \in op.old_pos .. (op.old_pos + op.n - 1) :
          p + 2 < InputSize /\ ChainHead(st, HashAt(p)) # p /\ Reachable(st, p)

(***************************************************************************)
(* C10.  hop_match inverts calculate_hops.                                 *)
(***************************************************************************)
\* the references a caller can ask about at the current position
TargetRefs(s) ==
    { [len |-> l, dist |-> d] : l \in MIN_MATCH .. Min(Remaining(s), MAX_MATCH), d \in 1 .. s.pos }

\* the len bytes at pos - dist equal the len bytes at pos
ValidRef(s, t) ==
    /\ t.dist >= 1 /\ t.dist <= s.pos
    /\ t.len >= MIN_MATCH /\ t.len <= Min(Remaining(s), MAX_MATCH)
    /\ \A i \in 0 .. (t.len - 1) : ByteAt(s.pos - t.dist + i) = ByteAt(s.pos + i)

Recreated == pc \in {"predict", "done"} /\ rec.st # "none"

BlockRoundTrip ==
    Recreated =>
        /\ rec.st = "ok"
        /\ rec.block.block_type = cur_block.block_type
        /\ rec.block.tokens = cur_block.tokens
        /\ dec.pos = enc.pos

\* a second block, holding a reference whose length and distance both had
\* to be corrected and a literal where a reference was predicted
BlockRoundTripWitness ==
    /\ Recreated
    /\ blocks_done = 2
    /\ rec.block.tokens = cur_block.tokens
    /\ \E i \in 1 .. Len(events.evs) :
          events.evs[i].k = "DistAfterLenCorrection" /\ events.evs[i].v >= 2
    /\ \E i \in 1 .. Len(events.evs) :
          events.evs[i] = Ev("ReferencePredictionWrong", 1)

(***************************************************************************)
(* C5.  Codec lockstep for token blocks: recreate_block issues decode      *)
(* calls of exactly the same kinds, in the same order and number, as the   *)
(* encode calls predict_block issued for the block.                        *)
(***************************************************************************)
CodecLockstep == Recreated => rec.kinds = Kinds(events.evs)

\* a block read in lockstep that holds a stored length, or a reference
\* predicted as a literal and corrected in distance only
CodecLockstepWitness ==
    /\ Recreated
    /\ rec.kinds = Kinds(events.evs)
    /\ \E i \in 1 .. Len(events.evs) : events.evs[i] = Ev("LiteralPredictionWrong", 1)
    /\ \E i \in 1 .. Len(events.evs) :
          events.evs[i].k = "DistOnlyCorrection" /\ events.evs[i].v > 0
    /\ Len(cur_block.tokens) > params.max_token_count

(***************************************************************************)
(* C6.  No partial success on decode: for every plaintext and every        *)
(* sequence of values the decoder delivers, recreate_block returns a block *)
(* or an error value; it never ends by a failed assertion, an arithmetic   *)
(* underflow or an out-of-range index.                                     *)
(***************************************************************************)
RecreateNeverPanics == rec.st # "panic"

(***************************************************************************)
(* C3.  Huffman-header round trip: for every frequency table and every     *)
(* header h, the counts of h mispredicted or not, recreate_tree_for_block  *)
(* fed the events predict_tree_for_block(h, freq) emitted returns a header *)
(* equal to h in num_literals, num_dist, num_code_lengths, code_lengths    *)
(* and lengths.                                                            *)
(***************************************************************************)
HeaderRoundTrip ==
    tree.pc = "recreated" => tree.st = "ok" /\ tree.result = tree.header

(***************************************************************************)
(* C4.  Default-path idempotence of the tree predictor: for both           *)
(* calculators, the header recreate_tree_for_block returns when every      *)
(* event decodes to its default makes predict_tree_for_block, on the same  *)
(* frequencies, emit defaults only: every misprediction false, every       *)
(* correction 0, no raw value.                                             *)
(***************************************************************************)
DefaultPathIdempotent ==
    tree.pc = "repredicted" =>
        /\ tree.st = "ok"
        /\ \A i \in 1 .. Len(tree.evs) :
               tree.evs[i].v = 0 /\ tree.evs[i].k \notin {"Value5", "Value4"}

DefaultPathIdempotentWitness ==
    /\ tree.pc = "repredicted"
    /\ tree.st = "ok"
    /\ tree.huffcalc = "Miniz"
    /\ \E i \in 1 .. Len(tree.result.lengths) : tree.result.lengths[i].t = TC_REPEAT
    /\ \E i \in 1 .. Len(tree.result.lengths) : tree.result.lengths[i].t = TC_ZERO_LONG
    /\ Len(tree.evs) = 2 * Len(tree.result.lengths) + 3 + tree.result.num_code_lengths

(***************************************************************************)
(* C7.  RLE sum: every header recreate_tree_for_block returns, whatever    *)
(* values the decoder delivers, has lengths whose expanded size (1 for a   *)
(* Code entry, the data of a Repeat, ZeroShort or ZeroLong entry) equals   *)
(* the returned num_literals + num_dist.                                   *)
(***************************************************************************)
RleSumIsCount ==
    (tree.pc \in {"recreated", "default", "fuzzed"} /\ tree.st = "ok") =>
        RleSum(tree.result.lengths, 1) = tree.result.num_literals + tree.result.num_dist

(***************************************************************************)
(* C8.  Trailing-zero minimality: for every code-tree bit-length vector t  *)
(* of length 1 .. 19, entries beyond its length counting as 0,             *)
(* calc_tc_lengths_without_trailing_zeros(t) returns the smallest n in     *)
(* 4 .. 19 such that t[TREE_CODE_ORDER_TABLE[i]] = 0 for every i with      *)
(* n <= i < 19.                                                            *)
(***************************************************************************)
TcCountIsMinimal ==
    tree.pc = "counted" => tree.n = MinimalCount(tree.t)

(***************************************************************************)
(* SpecScenario: the predictor alone under zlib level-6 parameters.  The   *)
(* decoder delivers nothing but defaults, so recreate_block returns the    *)
(* token sequence the predictor produces by itself.                        *)
(***************************************************************************)
S1Plaintext == <<97, 97, 97, 97, 97, 97, 97, 97>>

ScenarioPlaintexts == SeqsUpTo({97, 98}, MaxInputLen) \cup {S1Plaintext}

InitScenario ==
    /\ plain_text \in ScenarioPlaintexts
    /\ params = ZlibLevel6Params
    /\ st = NewState
    /\ op = [name |-> "new", n |-> 0, old_pos |-> 0]
    /\ est = EstIdle
    /\ reader = ReaderIdle
    /\ enc = NewPredictor
    /\ dec = NewPredictor
    /\ cur_block = NewBlock(BT_STORED)
    /\ cur_last = FALSE
    /\ events = [st |-> "none", evs |-> <<>>]
    /\ rec = [st |-> "none", block |-> NewBlock(BT_STORED), kinds |-> <<>>]
    /\ pc = "scenario"
    /\ blocks_done = 0
    /\ tree = TreeIdle

PredictDefaults ==
    /\ pc = "scenario"
    /\ Recreates(recreate_block(dec, <<>>))
    /\ pc' = "predicted"
    /\ UNCHANGED <<plain_text, params, hashVars, est, reader, enc, cur_block, cur_last, events, blocks_done,
                   tree>>

NextScenario == PredictDefaults

SpecScenario == InitScenario /\ [][NextScenario]_vars

(***************************************************************************)
(* C11.  Scenario S1.                                                      *)
(***************************************************************************)
S1Predicted == pc = "predicted" /\ plain_text = S1Plaintext

\* C11 as stated: for the 8-byte plaintext "aaaaaaaa" under zlib level-6
\* parameters the predictor, all corrections at their defaults, produces one
\* Literal followed by one Reference with len = 7 and dist = 1.
S1OneLiteral ==
    S1Predicted =>
        rec.st = "ok" /\ rec.block.tokens = <<Literal, Reference(Ref(7, 1, FALSE))>>

\* C11 amended: for the 8-byte plaintext "aaaaaaaa" under zlib level-6
\* parameters the predictor, all corrections at their defaults, produces two
\* Literals followed by one Reference with len = 6 and dist = 1: position 0
\* is never searched and a match may not reach back to position 0.
S1TwoLiterals ==
    S1Predicted =>
        rec.st = "ok" /\ rec.block.tokens = <<Literal, Literal, Reference(Ref(6, 1, FALSE))>>

S1TwoLiteralsWitness ==
    S1Predicted /\ Len(rec.block.tokens) = 3 /\ rec.block.tokens[3].t = "R"

(***************************************************************************)
(* C12.  Stored blocks: for a Stored block predict_block emits exactly     *)
(* BlockTypeCorrection, a 16-bit raw value and a NonZeroPadding            *)
(* correction (no TokenCount and no per-token events) and advances the     *)
(* hash and the input by uncompressed_len; recreate_block on those events  *)
(* returns a Stored block with the same uncompressed_len and padding_bits  *)
(* and advances by the same amount, over the same hash chain.              *)
(***************************************************************************)
StoredEvents(block) ==
    <<Ev("BlockTypeCorrection", 1), Ev("Value16", block.uncompressed_len),
      Ev("NonZeroPadding", block.padding_bits)>>

StoredPredictStep ==
    (pc = "predict" /\ pc' # "predict" /\ cur_block'.block_type = BT_STORED) =>
        /\ events' = [st |-> "ok", evs |-> StoredEvents(cur_block')]
        /\ enc'.pos = enc.pos + cur_block'.uncompressed_len

StoredRecreateStep ==
    (pc = "recreate" /\ pc' # "recreate" /\ cur_block.block_type = BT_STORED) =>
        /\ rec'.st = "ok"
        /\ rec'.block.block_type = BT_STORED
        /\ rec'.block.uncompressed_len = cur_block.uncompressed_len
        /\ rec'.block.padding_bits = cur_block.padding_bits
        /\ rec'.kinds = <<"BlockTypeCorrection", "Value16", "NonZeroPadding">>
        /\ dec'.pos = dec.pos + cur_block.uncompressed_len
        /\ dec' = enc

StoredBlocks == [][StoredPredictStep /\ StoredRecreateStep]_vars

StoredBlocksWitness ==
    /\ pc \in {"predict", "done"}
    /\ blocks_done = 2
    /\ cur_block.block_type = BT_STORED
    /\ cur_block.uncompressed_len > 1
    /\ cur_block.padding_bits = 5
    /\ rec.st = "ok"
    /\ rec.block = cur_block
    /\ dec.pos = InputSize

(***************************************************************************)
(* SpecIrregular: one block over a plaintext that is a single run of more  *)
(* than MAX_MATCH bytes, so that references of length 258 exist.  The      *)
(* block is a few literals and one reference; recreate_block is fed the    *)
(* events of predict_block, or those events with every IrregularLen258     *)
(* misprediction inverted.                                                 *)
(***************************************************************************)
MaxRunLen == 261

RunPlaintexts == { [i \in 1 .. n |-> 97] : n \in (MAX_MATCH + 1) .. MaxRunLen }

\* k literals and then a reference of length 257 or 258 into the run
RunBlocks ==
    { [NewBlock(bt) EXCEPT !.tokens = [i \in 1 .. k |-> Literal] \o <<Reference(Ref(l, d, irr))>>] :
        bt \in {BT_STATICHUFF, BT_DYNAMICHUFF}, k \in 1 .. (MaxRunLen - MAX_MATCH),
        l \in {MAX_MATCH - 1, MAX_MATCH}, d \in 1 .. 2, irr \in BOOLEAN }

InitIrregular ==
    /\ plain_text \in RunPlaintexts
    /\ params \in {ZlibLevel6Params, NonZlibParams}
    /\ st = NewState
    /\ op = [name |-> "new", n |-> 0, old_pos |-> 0]
    /\ est = EstIdle
    /\ reader = ReaderIdle
    /\ enc = NewPredictor
    /\ dec = NewPredictor
    /\ cur_block = NewBlock(BT_STORED)
    /\ cur_last = FALSE
    /\ events = [st |-> "none", evs |-> <<>>]
    /\ rec = [st |-> "none", block |-> NewBlock(BT_STORED), kinds |-> <<>>]
    /\ pc = "predict"
    /\ blocks_done = 0
    /\ tree = TreeIdle

PredictRunBlock ==
    /\ pc = "predict"
    /\ blocks_done = 0
    /\ \E b \in RunBlocks, last \in BOOLEAN :
          /\ BlockBytes(b) <= InputSize
          /\ b.tokens[Len(b.tokens)].irr => b.tokens[Len(b.tokens)].len = MAX_MATCH
          /\ b.tokens[Len(b.tokens)].dist <= Len(b.tokens) - 1
          /\ last => BlockBytes(b) = InputSize
          /\ Predicted(predict_block(enc, b, last))
          /\ cur_block' = b
          /\ cur_last' = last
    /\ blocks_done' = blocks_done + 1
    /\ UNCHANGED <<plain_text, params, hashVars, est, reader, dec, rec, tree>>

\* the events with the value of every IrregularLen258 misprediction inverted
Inverted258(evs) ==
    [i \in 1 .. Len(evs) |->
        IF evs[i].k = "IrregularLen258" THEN Ev(evs[i].k, 1 - evs[i].v) ELSE evs[i]]

RecreateInverted ==
    /\ pc = "recreate"
    /\ Recreates(recreate_block(dec, Inverted258(events.evs)))
    /\ events' = [events EXCEPT !.evs = Inverted258(@)]
    /\ pc' = "inverted"
    /\ UNCHANGED <<plain_text, params, hashVars, est, reader, enc, cur_block, cur_last, blocks_done, tree>>

NextIrregular == PredictRunBlock \/ RecreateBlock \/ RecreateInverted

SpecIrregular == InitIrregular /\ [][NextIrregular]_vars

(***************************************************************************)
(* C13.  IrregularLen258: when predict_block returns Ok, it emitted one    *)
(* IrregularLen258 misprediction for each target that is a Reference with  *)
(* len = 258 and for no other target, in token order, and the value of     *)
(* each is the token's irregular258 flag; when recreate_block returns Ok,  *)
(* it asked for one IrregularLen258 misprediction for each reference of    *)
(* len = 258 it rebuilt and for no other token, and irregular258 is set on *)
(* a rebuilt reference exactly when that misprediction decoded to true.    *)
(***************************************************************************)
Is258(tok) == tok.t = "R" /\ tok.len = MAX_MATCH

IsIrregularEvent(e) == e.k = "IrregularLen258"

\* the irregular258 flags of the references sel, in order
Flags258(sel) == [i \in 1 .. Len(sel) |-> IF sel[i].irr THEN 1 ELSE 0]

\* the values of the IrregularLen258 events of evs, in order
Values258(sel) == [i \in 1 .. Len(sel) |-> sel[i].v]

\* the values the decoder obtained where it asked for IrregularLen258
Asked258(kinds, evs) ==
    Values258(SelectSeq([i \in 1 .. Len(kinds) |-> Ev(kinds[i], ValAt(evs, i))],
                        IsIrregularEvent))

ParserConfig(good, lazy, nice, chain) ==
    [good_length |-> good, max_lazy |-> lazy, nice_length |-> nice, max_chain |-> chain]

\* zlib levels 1 .. 3
FAST_PREFLATE_PARSER_SETTINGS ==
    << ParserConfig(4, 4, 8, 4), ParserConfig(4, 5, 16, 8), ParserConfig(4, 6, 32, 32) >>

\* zlib levels 4 .. 9
SLOW_PREFLATE_PARSER_SETTINGS ==
    << ParserConfig(4, 4, 16, 16), ParserConfig(8, 16, 32, 32), ParserConfig(8, 16, 128, 128),
       ParserConfig(8, 32, 128, 256), ParserConfig(32, 128, 258, 1024),
       ParserConfig(32, 258, 258, 4096) >>

RECURSIVE BitAnd(_, _)
BitAnd(a, b) ==
    IF a = 0 \/ b = 0 THEN 0
    ELSE ((a % 2) * (b % 2)) + 2 * BitAnd(a \div 2, b \div 2)

\* possible_compression_levels & (1 << i) != 0
HasLevel(levels, i) == (levels \div Pow2(i)) % 2 = 1

\* possible_compression_levels &= !(1 << i)
WithoutLevel(levels, i) == IF HasLevel(levels, i) THEN levels - Pow2(i) ELSE levels

\* PreflateHashChainExt::get_node_depth: 0 for the empty slot and for a
\* position that never entered the chain
get_node_depth(s, node) ==
    IF node \notin DOMAIN s.prev THEN 0
    ELSE Cardinality({ q \in DOMAIN s.prev : q <= node /\ HashAt(q) = HashAt(node) })

\* match_depth once both depths are known; -1 stands for the failed assertion
MatchDepthFrom(start_depth, end_depth, allow_nonmatch) ==
    IF start_depth < end_depth THEN (IF allow_nonmatch THEN 65535 ELSE -1)
    ELSE Min(start_depth - end_depth, 65535)

\* the iterator of iterate_from_pos starts at a position of the plaintext,
\* never at the empty slot
match_depth(hash_head, target_reference, s, wsize, allow_nonmatch) ==
    IF target_reference.dist > Min(s.pos, wsize) THEN 65535
    ELSE MatchDepthFrom(get_node_depth(s, hash_head),
                        get_node_depth(s, s.pos - target_reference.dist), allow_nonmatch)

check_match_single_fast_hash(token, s, config, hash_head, wsize) ==
    ~(match_depth(ChainHead(s, hash_head), token, s, wsize, TRUE) > config.max_chain)

update_or_skip_single_fast_hash(s, len, config) ==
    IF len <= config.max_lazy THEN update_hash(s, len) ELSE skip_hash(s, len)

\* PreflateCompLevelEstimatorState::new: the info
NewInfo ==
    [ possible_compression_levels |-> 510, recommended_compression_level |-> 0,
      zlib_compatible |-> FALSE, reference_count |-> 0, unfound_references |-> 0,
      max_chain_depth |-> 0, longest_len_3_dist |-> 0, longest_dist_at_hop_0 |-> 0,
      longest_dist_at_hop_1_plus |-> 0, match_to_start |-> FALSE, very_far_matches |-> FALSE,
      far_len_3_matches |-> FALSE ]

\* PreflateCompLevelEstimatorState::update_hash
estimator_update_hash(e, len) ==
    [e EXCEPT !.fast = [i \in 1 .. 3 |->
                          IF HasLevel(e.info.possible_compression_levels, i)
                          THEN update_hash(e.fast[i], len) ELSE e.fast[i]],
              !.slow = update_hash(e.slow, len)]

update_or_skip_hash(e, len) ==
    [e EXCEPT !.fast = [i \in 1 .. 3 |->
                          IF HasLevel(e.info.possible_compression_levels, i)
                          THEN update_or_skip_single_fast_hash(
                                   e.fast[i], len, FAST_PREFLATE_PARSER_SETTINGS[i])
                          ELSE e.fast[i]],
              !.slow = update_hash(e.slow, len)]

\* the fast half of check_match for level i
FastChecked(e, token, hash_head, levels, i) ==
    IF /\ HasLevel(levels, i)
       /\ ~check_match_single_fast_hash(token, e.fast[i], FAST_PREFLATE_PARSER_SETTINGS[i],
                                        hash_head, window_size)
    THEN WithoutLevel(levels, i)
    ELSE levels

\* the loop over the slow settings, from index i on
RECURSIVE SlowChecked(_, _, _)
SlowChecked(levels, mdepth, i) ==
    IF i >= 6 THEN levels
    ELSE IF HasLevel(levels, 4 + i) /\ mdepth > SLOW_PREFLATE_PARSER_SETTINGS[i + 1].max_chain
    THEN SlowChecked(WithoutLevel(levels, 4 + i), mdepth, i + 1)
    ELSE SlowChecked(levels, mdepth, i + 1)

\* the slow half of check_match once mdepth is known
SlowMatched(info, token, pos, mdepth) ==
    [info EXCEPT
       !.reference_count = @ + 1,
       !.unfound_references = IF mdepth >= 32769 THEN @ + 1 ELSE @,
       !.max_chain_depth = IF mdepth >= 32769 THEN @ ELSE Max(@, mdepth),
       !.match_to_start = @ \/ token.dist = pos,
       !.longest_dist_at_hop_0 = IF mdepth = 0 THEN Max(@, token.dist) ELSE @,
       !.longest_dist_at_hop_1_plus = IF mdepth = 0 THEN @ ELSE Max(@, token.dist),
       !.longest_len_3_dist = IF token.len = 3 THEN Max(@, token.dist) ELSE @,
       !.possible_compression_levels =
           IF BitAnd(@, 1008) # 0 THEN SlowChecked(@, mdepth, 0) ELSE @]

\* check_match once the fast levels are settled and mdepth is known
CheckMatchSlow(e, token, levels, mdepth) ==
    IF mdepth < 0 THEN [e EXCEPT !.pc = "panic"]
    ELSE [e EXCEPT !.info = SlowMatched([e.info EXCEPT !.possible_compression_levels = levels],
                                        token, e.slow.pos, mdepth),
                   !.mdepth = mdepth]

CheckMatchFrom(e, token, hash_head) ==
    CheckMatchSlow(e, token,
                   FastChecked(e, token, hash_head,
                       FastChecked(e, token, hash_head,
                           FastChecked(e, token, hash_head,
                                       e.info.possible_compression_levels, 1), 2), 3),
                   match_depth(ChainHead(e.slow, hash_head), token, e.slow, window_size, FALSE))

\* check_match; a reference that reaches behind the start of the input is
\* not examined
check_match(e, token) ==
    IF e.slow.pos >= token.dist THEN CheckMatchFrom(e, token, HashAt(e.slow.pos))
    ELSE [e EXCEPT !.mdepth = -1]

\* check_dump's position in the block list: the next Stored block or token,
\* or the end of the list
RECURSIVE AtNextItem(_)
AtNextItem(e) ==
    IF e.bi > Len(e.blocks) THEN [e EXCEPT !.pc = "recommend"]
    ELSE IF e.blocks[e.bi].block_type = BT_STORED THEN e
    ELSE IF e.ti > Len(e.blocks[e.bi].tokens) THEN AtNextItem([e EXCEPT !.bi = @ + 1, !.ti = 1])
    ELSE e

\* a variant that never leaves the loop early
EarlyOutIgnored(e, levels) == AtNextItem([e EXCEPT !.ti = @ + 1])

\* the early-out test after a token: levels - 1 is an unsigned subtraction,
\* which panics with overflow checks and wraps without them
EarlyOutTested(e, levels) ==
    IF ~e.early_out THEN AtNextItem([e EXCEPT !.ti = @ + 1])
    ELSE IF levels = 0 THEN [e EXCEPT !.pc = IF e.overflow_checks THEN "panic" ELSE "recommend"]
    ELSE IF BitAnd(levels, levels - 1) = 0 THEN [e EXCEPT !.pc = "recommend"]
    ELSE AtNextItem([e EXCEPT !.ti = @ + 1])

\* the rest of the loop body once check_match returned c
ReferenceDumped(c, t) ==
    IF c.pc = "panic" THEN c
    ELSE EarlyOutTested(update_or_skip_hash(c, t.len), c.info.possible_compression_levels)

\* the body of check_dump's inner loop for the token t
TokenDumped(e, t) ==
    IF t.len = 1
    THEN EarlyOutTested(estimator_update_hash([e EXCEPT !.mdepth = -1], 1),
                        e.info.possible_compression_levels)
    ELSE ReferenceDumped(check_match(e, t), t)

\* one iteration of check_dump: a Stored block or one token
ItemDumped(e, b) ==
    IF b.block_type = BT_STORED
    THEN AtNextItem([estimator_update_hash([e EXCEPT !.mdepth = -1], b.uncompressed_len)
                       EXCEPT !.bi = @ + 1, !.ti = 1])
    ELSE TokenDumped(e, b.tokens[e.ti])

\* d <= window_size() - MIN_LOOKAHEAD and d < window_size() - MIN_LOOKAHEAD, the
\* difference an unsigned subtraction without overflow checks: below zero it
\* wraps to a value above every distance
WithinMaxDist(d) == window_size < MIN_LOOKAHEAD \/ d <= window_size - MIN_LOOKAHEAD

BelowMaxDist(d) == window_size < MIN_LOOKAHEAD \/ d < window_size - MIN_LOOKAHEAD

\* the slow level recommend falls back to, from index i on
RECURSIVE SlowLevelFor(_, _)
SlowLevelFor(max_chain_depth, i) ==
    IF i >= 6 THEN 9
    ELSE IF max_chain_depth <= SLOW_PREFLATE_PARSER_SETTINGS[i + 1].max_chain THEN 4 + i
    ELSE SlowLevelFor(max_chain_depth, i + 1)

\* the index of the lowest set bit of l, counted from level
RECURSIVE LowestLevel(_, _)
LowestLevel(l, level) == IF l % 2 = 1 THEN level ELSE LowestLevel(l \div 2, level + 1)

\* recommend once very_far_matches, far_len_3_matches and zlib_compatible are set
RecommendedLevel(info) ==
    IF info.unfound_references # 0 THEN 9
    ELSE IF info.zlib_compatible /\ info.possible_compression_levels > 1
    THEN LowestLevel(info.possible_compression_levels \div 2, 1)
    ELSE SlowLevelFor(info.max_chain_depth, 0)

\* a variant that does not look at match_to_start
CompatibleDespiteStart(info) ==
    [info EXCEPT !.zlib_compatible =
        /\ info.possible_compression_levels > 1
        /\ ~info.very_far_matches
        /\ (~info.far_len_3_matches \/ BitAnd(info.possible_compression_levels, 14) # 0)]

\* zlib_compatible of recommend
Compatible(info) ==
    [info EXCEPT !.zlib_compatible =
        /\ info.possible_compression_levels > 1
        /\ ~info.match_to_start
        /\ ~info.very_far_matches
        /\ (~info.far_len_3_matches \/ BitAnd(info.possible_compression_levels, 14) # 0)]

Recommended(info) == [info EXCEPT !.recommended_compression_level = RecommendedLevel(info)]

recommend(info) ==
    Recommended(Compatible(
        [info EXCEPT !.very_far_matches =
                        /\ ~WithinMaxDist(info.longest_dist_at_hop_0)
                        /\ BelowMaxDist(info.longest_dist_at_hop_1_plus),
                     !.far_len_3_matches = info.longest_len_3_dist > 4096]))

(***************************************************************************)
(* SpecEst: estimate_preflate_comp_level, one iteration of check_dump per  *)
(* step and then recommend.  The plaintext is zeros with a few marker      *)
(* bytes; the block list is a Stored block followed by a Huffman block of  *)
(* one or two tokens.  Short plaintexts exercise the chain-depth bounds of *)
(* the levels, long ones (window_bits 9) the distances near and beyond the *)
(* window, and a chain deep enough to leave a single level.  A reference   *)
(* of the list need not match the plaintext.                               *)
(***************************************************************************)
MaxShortText == 24
MaxLongText == 520

MarkedText(n, marks) == [i \in 1 .. n |-> IF (i - 1) \in marks THEN 8 ELSE 0]

ShortTexts == { MarkedText(MaxShortText, {}), MarkedText(10, {0, 3, 6}) }

LongTexts == { MarkedText(MaxLongText, marks) : marks \in { {}, {1, 253}, {1, 200, 253} } }

\* the tokens of length at most 4 that fit at position p, at the distances
\* dists and no farther back than one byte before the start of the input
EstTokens(p, dists) ==
    (IF p < InputSize THEN {Literal} ELSE {})
    \cup { Reference(Ref(l, d, FALSE)) :
             l \in MIN_MATCH .. Min(InputSize - p, 4), d \in { x \in dists : x <= p + 1 } }

EstTokenLists(p, dists, k) ==
    { <<t>> : t \in EstTokens(p, dists) }
    \cup (IF k < 2 THEN {}
          ELSE UNION { { <<t, u>> : u \in EstTokens(p + t.len, dists) } :
                         t \in EstTokens(p, dists) })

EstBlockLists(stored_lens, dists, k) ==
    UNION { { <<[NewBlock(BT_STORED) EXCEPT !.uncompressed_len = n],
                [NewBlock(BT_DYNAMICHUFF) EXCEPT !.tokens = toks]>> :
                toks \in EstTokenLists(n, dists, k) } :
            n \in { x \in stored_lens : x <= InputSize } }

\* PreflateCompLevelEstimatorState::new, at the first item of the block list
NewEstimator(blocks, early_out, overflow_checks) ==
    AtNextItem([ pc |-> "dump", blocks |-> blocks, early_out |-> early_out,
                 overflow_checks |-> overflow_checks, bi |-> 1, ti |-> 1,
                 slow |-> NewState, fast |-> <<NewState, NewState, NewState>>,
                 info |-> NewInfo, mdepth |-> -1 ])

InitEst ==
    /\ \/ /\ plain_text \in ShortTexts
          /\ params \in { [ZlibSlowParams EXCEPT !.window_bits = w] : w \in {8, 15} }
          /\ \E blocks \in EstBlockLists({0, 1, 5, 18, 20}, {1, 2, 6, 10, 18}, 2),
                early_out \in BOOLEAN, overflow_checks \in BOOLEAN :
                est = NewEstimator(blocks, early_out, overflow_checks)
       \/ /\ plain_text \in LongTexts
          /\ params = [ZlibSlowParams EXCEPT !.window_bits = 9]
          /\ \E blocks \in EstBlockLists({253, 514}, {1, 53, 252, 513}, 1),
                early_out \in BOOLEAN, overflow_checks \in BOOLEAN :
                est = NewEstimator(blocks, early_out, overflow_checks)
       \/ /\ plain_text = MarkedText(MaxLongText, {})
          /\ params = [ZlibSlowParams EXCEPT !.window_bits = 9]
          /\ \E blocks \in EstBlockLists({514}, {1, 300}, 2),
                early_out \in BOOLEAN, overflow_checks \in BOOLEAN :
                est = NewEstimator(blocks, early_out, overflow_checks)
    /\ st = NewState
    /\ op = [name |-> "new", n |-> 0, old_pos |-> 0]
    /\ TokIdle
    /\ tree = TreeIdle
    /\ reader = ReaderIdle

\* one iteration of check_dump
CheckDump ==
    /\ est.pc = "dump"
    /\ est' = ItemDumped(est, est.blocks[est.bi])
    /\ UNCHANGED <<plain_text, params, hashVars, tokVars, reader>>

\* recommend, after check_dump returned; window_size() - MIN_LOOKAHEAD is an
\* unsigned subtraction
Recommend ==
    /\ est.pc = "recommend"
    /\ est' = IF window_size < MIN_LOOKAHEAD /\ est.overflow_checks
              THEN [est EXCEPT !.pc = "panic"]
              ELSE [est EXCEPT !.pc = "done", !.info = recommend(est.info)]
    /\ UNCHANGED <<plain_text, params, hashVars, tokVars, reader>>

NextEst == CheckDump \/ Recommend

SpecEst == InitEst /\ [][NextEst]_vars

(***************************************************************************)
(* C14.  Level bitmask meaning: before any token is examined every zlib    *)
(* level 1 through 9 is marked viable in possible_compression_levels (bit  *)
(* i set for each i in 1..9, bit 0 clear), and the bit of a level is       *)
(* cleared only when a reference token's chain depth exceeds that level's  *)
(* configured max_chain.                                                   *)
(***************************************************************************)
LevelConfig(i) ==
    IF i <= 3 THEN FAST_PREFLATE_PARSER_SETTINGS[i] ELSE SLOW_PREFLATE_PARSER_SETTINGS[i - 3]

\* the chain depth of the reference t on the chain of level i, in estimator e
LevelDepth(e, i, t) ==
    IF i <= 3
    THEN match_depth(ChainHead(e.fast[i], HashAt(e.slow.pos)), t, e.fast[i], window_size, TRUE)
    ELSE match_depth(ChainHead(e.slow, HashAt(e.slow.pos)), t, e.slow, window_size, TRUE)

\* the estimator as new leaves it
AtStart == est = NewEstimator(est.blocks, est.early_out, est.overflow_checks)

ClearedOnlyByDepth ==
    \A i \in 1 .. 9 :
        (/\ est.pc = "dump"
         /\ HasLevel(est.info.possible_compression_levels, i)
         /\ ~HasLevel(est'.info.possible_compression_levels, i))
        => /\ est.blocks[est.bi].block_type # BT_STORED
           /\ est.blocks[est.bi].tokens[est.ti].t = "R"
           /\ LevelDepth(est, i, est.blocks[est.bi].tokens[est.ti]) > LevelConfig(i).max_chain

LevelBitmask ==
    [][/\ AtStart => est.info.possible_compression_levels = 1022
       /\ ClearedOnlyByDepth]_vars

(***************************************************************************)
(* C15.  very_far_matches is true after estimation whenever some reference *)
(* token examined has a distance greater than window_size - 262 (whether   *)
(* it was found at the head of the chain or deeper in the chain), and      *)
(* false when no examined reference has such a distance.  The longest      *)
(* distances examined are the two longest_dist fields of the info.  Stated *)
(* for the windows of at least 262 bytes.                                  *)
(***************************************************************************)
LongestExamined == Max(est.info.longest_dist_at_hop_0, est.info.longest_dist_at_hop_1_plus)

VeryFarReported ==
    (est.pc = "done" /\ window_size >= MIN_LOOKAHEAD) =>
        (est.info.very_far_matches <=> LongestExamined > window_size - MIN_LOOKAHEAD)

(***************************************************************************)
(* C16.  Unfound references are reported: for any early_out setting, if    *)
(* the block list contains a reference token that cannot be located on the *)
(* hash chain at its stated distance (including a distance greater than    *)
(* the current input position or greater than the window), then            *)
(* estimate_preflate_comp_level returns unfound_references > 0.            *)
(***************************************************************************)
RECURSIVE BytesBefore(_, _)
BytesBefore(blocks, bi) ==
    IF bi <= 1 THEN 0 ELSE BytesBefore(blocks, bi - 1) + BlockBytes(blocks[bi - 1])

\* the input position at which token ti of block bi stands
TokenPos(blocks, bi, ti) == BytesBefore(blocks, bi) + SumLen(SubSeq(blocks[bi].tokens, 1, ti - 1), 1)

\* no chain entry for the token's hash lies at its distance
Unlocatable(pos, t) ==
    \/ t.dist > pos
    \/ t.dist > window_size
    \/ HashAt(pos - t.dist) # HashAt(pos)

HasUnlocatable(blocks) ==
    \E bi \in 1 .. Len(blocks) : \E ti \in 1 .. Len(blocks[bi].tokens) :
        /\ blocks[bi].tokens[ti].t = "R"
        /\ Unlocatable(TokenPos(blocks, bi, ti), blocks[bi].tokens[ti])

UnfoundReported ==
    (est.pc = "done" /\ HasUnlocatable(est.blocks)) => est.info.unfound_references > 0

(***************************************************************************)
(* C17.  Recommended level: after recommend(), zlib_compatible equals      *)
(* (possible_compression_levels > 1) and not match_to_start and not        *)
(* very_far_matches and (not far_len_3_matches or                          *)
(* possible_compression_levels & 0xE != 0); when unfound_references = 0    *)
(* and zlib_compatible holds, recommended_compression_level is the index   *)
(* of the lowest set bit of possible_compression_levels; when              *)
(* unfound_references = 0 and zlib_compatible is false it is the lowest    *)
(* slow level (4..9) whose max_chain is at least max_chain_depth, or 9 if  *)
(* none; in all cases it lies in 1..9.                                     *)
(***************************************************************************)
LowestSetBit(levels) ==
    CHOOSE i \in 0 .. 31 : HasLevel(levels, i) /\ \A j \in 0 .. (i - 1) : ~HasLevel(levels, j)

SlowLevelsFor(depth) == { l \in 4 .. 9 : LevelConfig(l).max_chain >= depth }

RecommendedAsStated(info) ==
    /\ info.zlib_compatible <=>
         /\ info.possible_compression_levels > 1
         /\ ~info.match_to_start
         /\ ~info.very_far_matches
         /\ (~info.far_len_3_matches
             \/ \E i \in 1 .. 3 : HasLevel(info.possible_compression_levels, i))
    /\ (info.unfound_references = 0 /\ info.zlib_compatible) =>
         info.recommended_compression_level = LowestSetBit(info.possible_compression_levels)
    /\ (info.unfound_references = 0 /\ ~info.zlib_compatible) =>
         info.recommended_compression_level
           = (IF SlowLevelsFor(info.max_chain_depth) = {} THEN 9
              ELSE MinOf(SlowLevelsFor(info.max_chain_depth)))
    /\ info.recommended_compression_level \in 1 .. 9

RecommendedLevelRule == est.pc = "done" => RecommendedAsStated(est.info)

RecommendedLevelWitness ==
    /\ est.pc = "done"
    /\ est.info.unfound_references = 0
    /\ ~est.info.zlib_compatible
    /\ est.info.match_to_start
    /\ est.info.possible_compression_levels > 1
    /\ est.info.recommended_compression_level = 5

(***************************************************************************)
(* C20.  Early-out test is well defined: whenever check_dump evaluates the *)
(* early-out condition with early_out = true, possible_compression_levels  *)
(* is non-zero, so the subtraction never underflows: no token sequence     *)
(* eliminates every level before the pass stops.                           *)
(***************************************************************************)
EarlyOutDefined ==
    (est.pc # "idle" /\ est.early_out) => est.info.possible_compression_levels # 0

(***************************************************************************)
(* ZipBitReader over a seekable stream.  The reader is its three counters  *)
(* and the stream under it: len bytes, the position pos, the position      *)
(* initial at which the reader was created.  The stream's bytes are fixed   *)
(* by seed (StreamByte); return_value_buffer is the u64 buffer and wret the *)
(* u32 the last get built, both as their bits, lowest first.  limit is the  *)
(* max_readable_bytes the reader was created with and high the number of    *)
(* bytes past initial that the stream has handed out so far.  last and      *)
(* beyond describe the last call: its result, and whether it needed a byte  *)
(* past the limit.  A read that hits the end of the stream fails; whether   *)
(* the stream has then consumed what was left is up to the stream           *)
(* (consumed).  call names the last call; boundary is the offset of the    *)
(* last byte boundary the reader stood at (its creation, a flush, a byte   *)
(* read), since the number of bits get has returned from there on, and     *)
(* failed whether some call has returned an error.                         *)
(***************************************************************************)
MaxReadable == 9
MaxReaderCalls == 4
MaxBitCalls == 2
StreamSeeds == {0, 1}

\* the byte the stream holds at offset p
StreamByte(seed, p) == (37 * p + 11 * seed + 5) % 256

\* bit i of v, bit 0 the lowest
BitOf(v, i) == (v \div (2 ^ i)) % 2

ZeroBits(n) == [i \in 1 .. n |-> 0]

\* u64::from_le_bytes of the n bytes at offset p, zero-extended
LoadBits(seed, p, n) ==
    [i \in 1 .. 64 |->
        IF i <= 8 * n THEN BitOf(StreamByte(seed, p + ((i - 1) \div 8)), (i - 1) % 8) ELSE 0]

\* ZipBitReader::new
NewReader(len, initial, max_readable_bytes) ==
    [ pc |-> "ready", len |-> len, pos |-> initial, initial |-> initial,
      max_readable_bytes |-> max_readable_bytes, count_of_bits_in_buffer |-> 0,
      return_value_buffer |-> ZeroBits(64), wret |-> ZeroBits(32), seed |-> 0,
      limit |-> max_readable_bytes, high |-> 0, last |-> "new", beyond |-> FALSE, calls |-> 0,
      call |-> "new", boundary |-> initial, since |-> 0, failed |-> FALSE ]

Failed(r) == [r EXCEPT !.last = "err"]

\* binary_reader.read_u8 / read_u16 / read_u32 / read_u64: n bytes, all or nothing
StreamRead(r, n, consumed) ==
    IF r.pos + n <= r.len
    THEN [r EXCEPT !.pos = @ + n, !.high = Max(@, r.pos + n - r.initial), !.last = "ok"]
    ELSE IF consumed
    THEN [r EXCEPT !.pos = r.len, !.high = Max(@, r.len - r.initial), !.last = "err"]
    ELSE Failed(r)

\* the buffer after a read of n bytes returned rd: filled and charged to
\* max_readable_bytes when the read succeeded
Buffered(rd, n) ==
    IF rd.last = "err" THEN rd
    ELSE [rd EXCEPT !.count_of_bits_in_buffer = 8 * n, !.max_readable_bytes = @ - n,
                    !.return_value_buffer = LoadBits(rd.seed, rd.pos - n, n)]

\* the last branch of ensure_buffer: max_readable_bytes is charged before the read
BufferedByte(rd) ==
    IF rd.last = "err" THEN rd
    ELSE [rd EXCEPT !.count_of_bits_in_buffer = 8,
                    !.return_value_buffer = LoadBits(rd.seed, rd.pos - 1, 1)]

ensure_buffer(r, consumed) ==
    IF r.count_of_bits_in_buffer # 0 THEN [r EXCEPT !.last = "ok"]
    ELSE IF r.max_readable_bytes >= 8 THEN Buffered(StreamRead(r, 8, consumed), 8)
    ELSE IF r.max_readable_bytes >= 4 THEN Buffered(StreamRead(r, 4, consumed), 4)
    ELSE IF r.max_readable_bytes >= 2 THEN Buffered(StreamRead(r, 2, consumed), 2)
    ELSE IF r.max_readable_bytes = 0 THEN Failed(r)
    ELSE BufferedByte(StreamRead([r EXCEPT !.max_readable_bytes = @ - 1], 1, consumed))

read_byte(r, consumed) ==
    IF r.count_of_bits_in_buffer # 0 THEN Failed(r)
    ELSE StreamRead([r EXCEPT !.max_readable_bytes = @ - 1], 1, consumed)

FlushWithoutRefund(r) ==
    IF r.count_of_bits_in_buffer = 0 THEN [r EXCEPT !.last = "ok"]
    ELSE [r EXCEPT !.pos = @ - (r.count_of_bits_in_buffer \div 8),
                   !.count_of_bits_in_buffer = 0,
                   !.last = "ok"]
flush_buffer_to_byte_boundary(r) ==
    IF r.count_of_bits_in_buffer = 0 THEN [r EXCEPT !.last = "ok"]
    ELSE [r EXCEPT !.pos = @ - (r.count_of_bits_in_buffer \div 8),
                   !.max_readable_bytes = @ + (r.count_of_bits_in_buffer \div 8),
                   !.count_of_bits_in_buffer = 0,
                   !.last = "ok"]

\* wret | ((return_value_buffer & !(u64::MAX << cbits_from_buffer)) << cbits_added) as u32
PlaceBitsUnshifted(wret, buffer, cbits_added, cbits_from_buffer) ==
    [i \in 1 .. 32 |-> IF i <= cbits_from_buffer THEN Max(wret[i], buffer[i]) ELSE wret[i]]
PlaceBits(wret, buffer, cbits_added, cbits_from_buffer) ==
    [i \in 1 .. 32 |->
        IF i > cbits_added /\ i <= cbits_added + cbits_from_buffer
        THEN Max(wret[i], buffer[i - cbits_added])
        ELSE wret[i]]

\* return_value_buffer >>= cbits_from_buffer
ShiftedOut(buffer, cbits_from_buffer) ==
    [i \in 1 .. 64 |-> IF i + cbits_from_buffer <= 64 THEN buffer[i + cbits_from_buffer] ELSE 0]

\* the loop of get(cbit) with cbits_needed bits still to deliver; e is the
\* reader after ensure_buffer
RECURSIVE GetLoop(_, _, _, _)
RECURSIVE GetTake(_, _, _, _)
GetTake(e, cbit, cbits_needed, consumed) ==
    IF e.last = "err" THEN e
    ELSE GetLoop([e EXCEPT !.count_of_bits_in_buffer = @ - Min(cbits_needed, @),
                           !.wret = PlaceBits(@, e.return_value_buffer, cbit - cbits_needed,
                                              Min(cbits_needed, e.count_of_bits_in_buffer)),
                           !.return_value_buffer =
                               ShiftedOut(@, Min(cbits_needed, e.count_of_bits_in_buffer))],
                 cbit, cbits_needed - Min(cbits_needed, e.count_of_bits_in_buffer), consumed)

GetLoop(r, cbit, cbits_needed, consumed) ==
    IF cbits_needed = 0 THEN [r EXCEPT !.last = "ok"]
    ELSE GetTake(ensure_buffer(r, consumed), cbit, cbits_needed, consumed)

get(r, cbit, consumed) ==
    IF cbit = 0 THEN [r EXCEPT !.last = "ok", !.wret = ZeroBits(32)]
    ELSE IF cbit > 32 THEN Failed(r)
    ELSE GetLoop([r EXCEPT !.wret = ZeroBits(32)], cbit, cbit, consumed)

\* the bytes between the next byte the stream would hand out and the limit
BytesToLimit(r) == r.limit - (r.pos - r.initial)

\* the call after which the reader is r1 was made in reader r
Called(r, r1, call, beyond) ==
    [r1 EXCEPT !.calls = r.calls + 1, !.beyond = beyond, !.call = call,
               !.failed = @ \/ r1.last = "err"]

\* a get that returned cbit bits
Returned(r1, cbit) == IF r1.last = "ok" THEN [r1 EXCEPT !.since = @ + cbit] ELSE r1

\* a call that left the reader on a byte boundary
OnBoundary(r1) == IF r1.last = "ok" THEN [r1 EXCEPT !.boundary = r1.pos, !.since = 0] ELSE r1

(***************************************************************************)
(* SpecReader: any sequence of at most MaxReaderCalls calls of get,        *)
(* read_byte and flush_buffer_to_byte_boundary on a reader created with    *)
(* max_readable_bytes in 0 .. MaxReadable, over a stream that ends before  *)
(* or after the limit.                                                     *)
(***************************************************************************)
InitReader ==
    /\ plain_text = <<>>
    /\ params = ZlibSlowParams
    /\ st = NewState
    /\ op = [name |-> "new", n |-> 0, old_pos |-> 0]
    /\ TokIdle
    /\ tree = TreeIdle
    /\ est = EstIdle
    /\ \E n \in 0 .. MaxReadable, initial \in {0, 3}, slack \in {-1, 2}, seed \in StreamSeeds :
          /\ n + slack >= 0
          /\ reader = [NewReader(initial + n + slack, initial, n) EXCEPT !.seed = seed]

GetWithin(max_calls) ==
    /\ reader.pc = "ready"
    /\ reader.calls < max_calls
    /\ \E cbit \in {0, 1, 7, 8, 9, 32, 33}, consumed \in BOOLEAN :
          reader' = Called(reader, Returned(get(reader, cbit, consumed), cbit), "get",
                           cbit \in 1 .. 32
                           /\ reader.count_of_bits_in_buffer + 8 * BytesToLimit(reader) < cbit)
    /\ UNCHANGED <<plain_text, params, hashVars, tokVars, est>>

ReadByteWithin(max_calls) ==
    /\ reader.pc = "ready"
    /\ reader.calls < max_calls
    /\ \E consumed \in BOOLEAN :
          reader' = Called(reader, OnBoundary(read_byte(reader, consumed)), "read_byte",
                           reader.count_of_bits_in_buffer = 0 /\ BytesToLimit(reader) < 1)
    /\ UNCHANGED <<plain_text, params, hashVars, tokVars, est>>

FlushWithin(max_calls) ==
    /\ reader.pc = "ready"
    /\ reader.calls < max_calls
    /\ reader' = Called(reader, OnBoundary(flush_buffer_to_byte_boundary(reader)), "flush", FALSE)
    /\ UNCHANGED <<plain_text, params, hashVars, tokVars, est>>

Get == GetWithin(MaxReaderCalls)
ReadByte == ReadByteWithin(MaxReaderCalls)
FlushBufferToByteBoundary == FlushWithin(MaxReaderCalls)

NextReader == Get \/ ReadByte \/ FlushBufferToByteBoundary

SpecReader == InitReader /\ [][NextReader]_vars

(***************************************************************************)
(* C18.  Bit-reader read limit: for a ZipBitReader created with            *)
(* max_readable_bytes = N >= 0, after any sequence of get, read_byte and   *)
(* flush_buffer_to_byte_boundary calls the underlying stream has never     *)
(* been read beyond N bytes past the initial position, and any call that   *)
(* would need a byte beyond that limit returns an error.                   *)
(***************************************************************************)
ReadLimit ==
    reader.pc = "ready" =>
        /\ reader.high <= reader.limit
        /\ reader.beyond => reader.last = "err"

(***************************************************************************)
(* SpecWindow: predict_block's loop one token at a time, for every window  *)
(* size a DEFLATE stream can declare.  Each step predicts the token at the *)
(* encoder's position and commits the token the stream holds there, which  *)
(* cur_block records.  A                                                   *)
(* step whose arithmetic leaves the u32 range ends the run: what follows   *)
(* depends on the build (a panic with overflow checks, a wrapped bound     *)
(* without).                                                               *)
(***************************************************************************)
WindowBits == 8 .. 15

WindowParams ==
    { [p EXCEPT !.window_bits = w] :
        p \in {ZlibSlowParams, ZlibFastParams, NonZlibParams}, w \in WindowBits }
    \cup {TightParams}

\* "zabcdxabyxabcd": at position 9 "xab" matches three bytes and one byte
\* ahead "abcd" matches four
LazyPlaintext == <<7, 1, 2, 3, 4, 5, 1, 2, 6, 5, 1, 2, 3, 4>>

InitWindow ==
    /\ plain_text \in SeqsUpTo({97, 98}, MaxInputLen) \cup SamplePlaintexts \cup {LazyPlaintext}
    /\ params \in WindowParams
    /\ st = NewState
    /\ op = [name |-> "new", n |-> 0, old_pos |-> 0]
    /\ est = EstIdle
    /\ reader = ReaderIdle
    /\ enc = NewPredictor
    /\ dec = NewPredictor
    /\ cur_block = NewBlock(BT_DYNAMICHUFF)
    /\ cur_last = FALSE
    /\ events = [st |-> "none", evs |-> <<>>]
    /\ rec = [st |-> "none", block |-> NewBlock(BT_STORED), kinds |-> <<>>]
    /\ pc = "token"
    /\ blocks_done = 0
    /\ tree = TreeIdle

\* one iteration of predict_block's loop: predict_token, repredict_reference
\* when a literal was predicted for a reference, commit_token
PredictToken ==
    /\ pc = "token"
    /\ \E target \in ValidTokens(enc.pos) :
          /\ enc' = PredictOne(enc, target).tp
          /\ events' = [st |-> PredictOne(enc, target).st, evs |-> PredictOne(enc, target).evs]
          /\ pc' = IF PredictOne(enc, target).st = "ok" THEN "token" ELSE "stopped"
          /\ cur_block' = [NewBlock(BT_DYNAMICHUFF) EXCEPT !.tokens = <<target>>]
    /\ UNCHANGED <<plain_text, params, hashVars, est, reader, dec, rec, cur_last,
                   blocks_done, tree>>

NextWindow == PredictToken

SpecWindow == InitWindow /\ [][NextWindow]_vars

\* predict_token and repredict_reference reach match_token's distance bounds
\* from tp: not at position 0, at least MIN_MATCH bytes left
ReachesMatchToken(tp) == tp.pos # 0 /\ Remaining(tp) >= MIN_MATCH

(***************************************************************************)
(* C19.  match_token's distance bounds never underflow: for every          *)
(* window_bits in 8 .. 15 and every call reachable from predict_token or   *)
(* repredict_reference, window_size - MIN_LOOKAHEAD, max_dist - 1 and      *)
(* start_pos - 1 are not negative.                                         *)
(***************************************************************************)
DistanceBoundsInRange ==
    (pc = "token" /\ ReachesMatchToken(enc)) =>
        /\ max_dist_to_start(enc.pos) >= 0
        /\ ~params.very_far_matches_detected => (max_dist >= 0 /\ max_dist - 1 >= 0)

(***************************************************************************)
(* C21.  calc_tc_lengths_without_trailing_zeros never indexes outside its  *)
(* argument: for every bit-length vector as calc_bit_lengths returns it    *)
(* (which may be shorter than 19, the callers resize it afterwards), every *)
(* index TREE_CODE_ORDER_TABLE[len - 1] it reads is below the vector's     *)
(* length.  The vectors are those of the code trees with one or two        *)
(* symbols in use.                                                         *)
(***************************************************************************)
\* the code-tree frequency tables with one or two symbols in use
TcTables ==
    { [s \in {a, b} |-> 1] : a \in 0 .. (CODETREE_CODE_COUNT - 1),
                              b \in 0 .. (CODETREE_CODE_COUNT - 1) }

FromCalcBitLengths(t) == \E f \in TcTables : t = calc_bit_lengths("Zlib", f, 7)

TcIndexInRange ==
    (tree.pc = "counted" /\ FromCalcBitLengths(tree.t)) => tree.n # -1

(***************************************************************************)
(* C22.  Level bitmask is monotone: across the whole token pass            *)
(* possible_compression_levels never gains a bit; with early_out = true    *)
(* the pass stops examining tokens immediately after the first token at    *)
(* which exactly one level remains viable; with early_out = false every    *)
(* token of every block is examined before check_dump returns.             *)
(***************************************************************************)
\* exactly one bit of the mask is set
OneLevel(levels) == levels > 0 /\ BitAnd(levels, levels - 1) = 0

\* check_dump's position is a token of a Huffman block
AtToken(e) == e.pc = "dump" /\ e.blocks[e.bi].block_type # BT_STORED

LevelsStep ==
    est.pc = "dump" =>
        /\ BitAnd(est'.info.possible_compression_levels, est.info.possible_compression_levels)
             = est'.info.possible_compression_levels
        /\ (est.early_out /\ AtToken(est) /\ est'.pc # "panic"
              /\ OneLevel(est'.info.possible_compression_levels))
           => (est'.pc = "recommend" /\ est'.bi = est.bi /\ est'.ti = est.ti)
        /\ (~est.early_out /\ est'.pc = "recommend") => est'.bi > Len(est.blocks)

LevelsMonotone == [][LevelsStep]_vars

\* the pass has stopped at a token that left one level, with a token still
\* to come
LevelsMonotoneWitness ==
    /\ est.pc = "recommend"
    /\ est.early_out
    /\ est.bi <= Len(est.blocks)
    /\ est.ti < Len(est.blocks[est.bi].tokens)
    /\ OneLevel(est.info.possible_compression_levels)
    /\ est.info.possible_compression_levels # NewInfo.possible_compression_levels

(***************************************************************************)
(* C23.  TokenCount rule: for a Huffman block with n tokens predict_block  *)
(* emits TokenCount = 0 when n equals max_token_count, or when it is the   *)
(* last block and n <= max_token_count, and n + 1 otherwise;               *)
(* recreate_block takes 0 as a limit of max_token_count tokens and v > 0   *)
(* as a limit of v - 1 tokens, and produces tokens until the limit is      *)
(* reached or the input is exhausted.                                      *)
(***************************************************************************)
TokenCountAsStated(n, last_block) ==
    IF n = params.max_token_count \/ (last_block /\ n <= params.max_token_count)
    THEN 0 ELSE n + 1

TokenLimitAsStated(v) == IF v = 0 THEN params.max_token_count ELSE v - 1

TokenCountPredictStep ==
    (pc = "predict" /\ pc' # "predict" /\ cur_block'.block_type # BT_STORED) =>
        /\ Len(events'.evs) >= 2
        /\ events'.evs[2] = Ev("TokenCount", TokenCountAsStated(Len(cur_block'.tokens), cur_last'))

TokenCountRecreateStep ==
    (pc = "recreate" /\ pc' # "recreate" /\ cur_block.block_type # BT_STORED
       /\ rec'.st = "ok") =>
        /\ rec'.kinds[2] = "TokenCount"
        /\ Len(rec'.block.tokens) <= TokenLimitAsStated(events.evs[2].v)
        /\ \/ Len(rec'.block.tokens) = TokenLimitAsStated(events.evs[2].v)
           \/ Remaining(dec') = 0

TokenCountRule == [][TokenCountPredictStep /\ TokenCountRecreateStep]_vars

\* a block of exactly max_token_count tokens that is not the last: the
\* count is 0 and the decoder stops at the limit with input left
TokenCountRuleWitness ==
    /\ pc = "predict"
    /\ blocks_done >= 1
    /\ cur_block.block_type # BT_STORED
    /\ ~cur_last
    /\ events.evs[2] = Ev("TokenCount", 0)
    /\ rec.st = "ok"
    /\ Len(rec.block.tokens) = params.max_token_count
    /\ rec.block = cur_block
    /\ Remaining(dec) > 0

(***************************************************************************)
(* C24.  Per-token misprediction events: for each target token             *)
(* predict_block emits exactly one misprediction flag chosen by the        *)
(* predicted token kind: LiteralPredictionWrong when the prediction was a  *)
(* Literal (false for a Literal target, true for a Reference target) and   *)
(* ReferencePredictionWrong when the prediction was a Reference (true for  *)
(* a Literal target, false for a Reference target); a LenCorrection and a  *)
(* distance correction follow if and only if the target is a Reference.    *)
(* Stated for the tokens predict_block gets past without an error.         *)
(***************************************************************************)
FlagKinds == {"LiteralPredictionWrong", "ReferencePredictionWrong"}

DistKinds == {"DistAfterLenCorrection", "DistOnlyCorrection"}

\* the flag the claim names for the prediction p and the target t
FlagAsStated(p, t) ==
    IF p.t = "L" THEN Ev("LiteralPredictionWrong", IF t.t = "R" THEN 1 ELSE 0)
    ELSE Ev("ReferencePredictionWrong", IF t.t = "L" THEN 1 ELSE 0)

MispredictionEvents(p, t, evs) ==
    /\ Len(evs) >= 1
    /\ evs[1] = FlagAsStated(p, t)
    /\ \A i \in 2 .. Len(evs) : evs[i].k \notin FlagKinds
    /\ t.t = "L" => Len(evs) = 1
    /\ t.t = "R" => /\ Len(evs) >= 3
                    /\ evs[2].k = "LenCorrection"
                    /\ evs[3].k \in DistKinds

MispredictionStep ==
    (pc = "token" /\ events'.st = "ok") =>
        MispredictionEvents(predict_token(enc).tok, cur_block'.tokens[1], events'.evs)

PredictedRef(tp, p) ==
    IF p.tok.t = "R" THEN TokRef(p.tok) ELSE repredict_reference(WithPending(tp, p)).ref

DistEventAsStated(tp, pr, t) ==
    IF pr.len # t.len THEN Ev("DistAfterLenCorrection", calculate_hops(tp, t).v)
    ELSE IF pr.dist # t.dist THEN Ev("DistOnlyCorrection", calculate_hops(tp, t).v)
    ELSE Ev("DistOnlyCorrection", 0)

DistCorrected(tp, pr, t, evs) ==
    /\ evs[3] = DistEventAsStated(tp, pr, t)
    /\ evs[3] = Ev("DistOnlyCorrection", 0) => pr.dist = t.dist

DistStep ==
    (pc = "token" /\ events'.st = "ok" /\ cur_block'.tokens[1].t = "R") =>
        DistCorrected(enc, PredictedRef(enc, predict_token(enc)), cur_block'.tokens[1],
                      events'.evs)

\* calculate_hops counts the target itself
HopsAtLeastOne ==
    \A t \in ValidTokens(enc.pos) :
        (t.t = "R" /\ calculate_hops(enc, t).st = "ok") => calculate_hops(enc, t).v >= 1

DistanceRule == [][DistStep /\ (pc = "token" => HopsAtLeastOne)]_vars

\* the predicted length was right and the distance was not: the hops of the
\* target are written
DistanceRuleWitness ==
    /\ pc = "token"
    /\ events.st = "ok"
    /\ Len(events.evs) = 3
    /\ events.evs[2] = Ev("LenCorrection", 0)
    /\ events.evs[3].k = "DistOnlyCorrection"
    /\ events.evs[3].v >= 2

(***************************************************************************)
(* C26.  commit_token advances the input by exactly 1 for a Literal and by *)
(* exactly len for a Reference, uses skip_hash (the positions the token    *)
(* covers after its first are not inserted) exactly when                   *)
(* is_fast_compressor is set and len > max_lazy and update_hash otherwise, *)
(* and increments current_token_count by exactly 1; on the encode path the *)
(* committed token is the target token, never the predicted one.           *)
(***************************************************************************)
\* the positions of [from, to) that are in the chain of tp
Inserted(tp, from, to) == { q \in from .. (to - 1) : q \in DOMAIN tp.prev }

\* the positions of [from, to) that have a full 3-byte window
Hashable(from, to) == { q \in from .. (to - 1) : q + 2 < InputSize }

SameChain(a, b) == a.head = b.head /\ a.prev = b.prev

Committed(tp, tp1, t) ==
    /\ tp1.pos = tp.pos + (IF t.t = "L" THEN 1 ELSE t.len)
    /\ tp1.count = tp.count + 1
    /\ IF t.t = "R" /\ params.is_fast_compressor /\ t.len > params.max_lazy
       THEN /\ SameChain(tp1, skip_hash(tp, t.len))
            /\ Inserted(tp1, tp.pos + 1, tp1.pos) = {}
       ELSE /\ SameChain(tp1, update_hash(tp, t.len))
            /\ Inserted(tp1, tp.pos, tp1.pos) = Hashable(tp.pos, tp1.pos)

CommitStep ==
    (pc = "token" /\ events'.st = "ok") => Committed(enc, enc', cur_block'.tokens[1])

CommitsTarget == [][CommitStep]_vars

\* the fast compressor has skipped over a reference that was not the
\* predicted one
CommitsTargetWitness ==
    /\ pc = "token"
    /\ events.st = "ok"
    /\ params.is_fast_compressor
    /\ cur_block.tokens[1].t = "R"
    /\ cur_block.tokens[1].len > params.max_lazy
    /\ events.evs[2].v # 0
    /\ Hashable(enc.pos - cur_block.tokens[1].len + 1, enc.pos) # {}
    /\ Inserted(enc, enc.pos - cur_block.tokens[1].len + 1, enc.pos) = {}

(***************************************************************************)
(* C27.  Lazy-match lookahead state: pending_reference is None at the      *)
(* start of every block and after every predict_token call made with       *)
(* zlib_compatible = false; with zlib_compatible = true it is Some only    *)
(* directly after a predict_token call that returned Literal because a     *)
(* strictly longer match exists one byte ahead, and that stored reference  *)
(* is consumed only by the next predict_token call, made at the following  *)
(* input position, or discarded by repredict_reference.                    *)
(***************************************************************************)
\* r is a match of the plaintext at position p
MatchesAt(p, r) ==
    /\ r.dist >= 1 /\ r.dist <= p
    /\ p + r.len <= InputSize
    /\ \A i \in 0 .. (r.len - 1) : ByteAt(p - r.dist + i) = ByteAt(p + i)

\* the match predict_token starts from at tp: the pending reference or the
\* one match_token finds
CurrentMatch(tp) ==
    IF tp.pending # NoRef THEN Success(tp.pending)
    ELSE match_token(tp, HashAt(tp.pos), 0, 0, SearchDepth(1))

\* predict_token at tp answered p and left a pending reference
Stashed(tp, p, m) ==
    /\ params.zlib_compatible
    /\ p.tok = Literal
    /\ m.kind = "Success"
    /\ p.pending.len > m.ref.len
    /\ MatchesAt(tp.pos + 1, p.pending)

\* the pending reference of tp is used up by the call that answered p
Consumed(tp, p) ==
    /\ tp.pos # 0 /\ Remaining(tp) >= MIN_MATCH
    /\ p.pending # tp.pending
    /\ MatchesAt(tp.pos, tp.pending)

PendingAfterCall(tp, p, tp1, t) ==
    /\ ~params.zlib_compatible => p.pending = NoRef
    /\ p.pending # NoRef => Stashed(tp, p, CurrentMatch(tp))
    /\ tp.pending # NoRef => Consumed(tp, p)
    /\ tp1.pending = (IF t.t = "R" /\ p.tok.t = "L" THEN NoRef ELSE p.pending)
    /\ tp1.pending # NoRef => tp1.pos = tp.pos + 1

PendingStep ==
    (pc = "token" /\ events'.st = "ok") =>
        PendingAfterCall(enc, predict_token(enc), enc', cur_block'.tokens[1])

PendingReference ==
    [][/\ PendingStep
       /\ enc.count = 0 => enc.pending = NoRef
       /\ BlockStart(enc').pending = NoRef]_vars

\* predict_token has answered Literal and left the longer match of the
\* following position
PendingReferenceWitness ==
    /\ pc = "token"
    /\ params.zlib_compatible
    /\ events = [st |-> "ok", evs |-> <<Ev("LiteralPredictionWrong", 0)>>]
    /\ enc.pending # NoRef
    /\ enc.pending.len > MIN_MATCH
    /\ MatchesAt(enc.pos, enc.pending)

(***************************************************************************)
(* match_token on the states of a predictor: the arguments its callers     *)
(* pass are a previous length, the offset 0 (the current position) or 1   *)
(* (the lazy probe) with the hash of the three bytes at that position,    *)
(* and a depth limit.                                                      *)
(***************************************************************************)
MaxPrevLen == 4
MaxDepthArg == 2

HasHashAt(p) == p + MIN_MATCH <= InputSize

MatchTokenAt(s, prev_len, offset, max_depth) ==
    match_token(s, HashAt(s.pos + offset), prev_len, offset, max_depth)

SuccessAsStated(m, start_pos, prev_len) ==
    /\ m.ref.len > prev_len
    /\ m.ref.len >= MIN_MATCH
    /\ m.ref.len <= Min(InputSize - start_pos, MAX_MATCH)
    /\ m.ref.dist >= 1
    /\ m.ref.dist <= cur_max_dist_hop0(start_pos)
    /\ \A i \in 0 .. (m.ref.len - 1) : ByteAt(start_pos - m.ref.dist + i) = ByteAt(start_pos + i)

\* C28: every MatchResult::Success(r) of match_token(hash, prev_len, offset,
\* max_depth) has r.len > prev_len, 3 <= r.len <= min(input left at
\* pos + offset, 258), 1 <= r.dist <= the bound of the head chain entry, and
\* the r.len bytes at pos + offset - r.dist equal the r.len bytes at
\* pos + offset.
SuccessIsMatch ==
    \A prev_len \in 0 .. MaxPrevLen, offset \in {0, 1}, max_depth \in 0 .. MaxDepthArg :
        (HasHashAt(st.pos + offset)
         /\ MatchTokenAt(st, prev_len, offset, max_depth).kind = "Success")
        => SuccessAsStated(MatchTokenAt(st, prev_len, offset, max_depth), st.pos + offset,
                           prev_len)

\* a lazy probe with a previous match of length 3 that finds a longer match
\* further back than the nearest chain entry
SuccessIsMatchWitness ==
    /\ HasHashAt(st.pos + 1)
    /\ MatchTokenAt(st, MIN_MATCH, 1, 0).kind = "Success"
    /\ MatchTokenAt(st, MIN_MATCH, 1, 0).ref.len > MIN_MATCH
    /\ MatchTokenAt(st, MIN_MATCH, 1, 0).ref.dist
           > iterate_from_head(st, HashAt(st.pos + 1), st.pos + 1, st.pos + 1).dist

(***************************************************************************)
(* The distance bounds of match_token next to the window: a window of 512 *)
(* bytes over plaintexts longer than it, whose marked positions start the  *)
(* only three-byte sequences that repeat at a chosen distance.             *)
(***************************************************************************)
MaxFarStep == 2

FarTexts ==
    { MarkedText(MaxLongText, marks) :
        marks \in { {0, 250}, {1, 251}, {1, 252}, {1, 100, 250}, {1, 100, 251},
                    {1, 513}, {1, 514}, {1, 400, 514} } }

FarParams ==
    { [ ZlibLevel6Params EXCEPT !.window_bits = 9, !.nice_length = 16, !.max_chain = 4,
                                !.very_far_matches_detected = far,
                                !.matches_to_start_detected = to_start ] :
        far \in BOOLEAN, to_start \in BOOLEAN }

InitFar ==
    /\ plain_text \in FarTexts
    /\ params \in FarParams
    /\ st = NewState
    /\ op = [name |-> "new", n |-> 0, old_pos |-> 0]
    /\ est = EstIdle
    /\ reader = ReaderIdle
    /\ TokIdle
    /\ tree = TreeIdle

UpdateHashFar ==
    \E n \in 1 .. MaxFarStep :
        /\ n <= Remaining(st)
        /\ st' = update_hash(st, n)
        /\ op' = [name |-> "update_hash", n |-> n, old_pos |-> st.pos]
        /\ UNCHANGED <<plain_text, params, tokVars, est, reader>>

NextFar == UpdateHashFar

SpecFar == InitFar /\ [][NextFar]_vars

\* the distance of the head entry of the chain of the bytes at start_pos
HeadDist(s, start_pos) == iterate_from_head(s, HashAt(start_pos), start_pos, 0).dist

\* match_token gets as far as its bounds: there is input for a match and the
\* distance to the start does not underflow
ReachesBounds(start_pos) == HasHashAt(start_pos) /\ max_dist_to_start(start_pos) >= 0

DistToStart(start_pos) ==
    IF params.matches_to_start_detected THEN start_pos ELSE start_pos - 1

Hop0AsStated(start_pos) ==
    Min(DistToStart(start_pos),
        IF params.very_far_matches_detected THEN window_size ELSE window_size - 262)

Hop1PlusAsStated(start_pos) ==
    Min(DistToStart(start_pos),
        IF params.very_far_matches_detected THEN window_size ELSE window_size - 263)

BoundsAsStated(m, head, start_pos) ==
    /\ cur_max_dist_hop0(start_pos) = Hop0AsStated(start_pos)
    /\ cur_max_dist_hop1_plus(start_pos) = Hop1PlusAsStated(start_pos)
    /\ (m.kind = "DistanceLargerThanHop0") <=> (head > Hop0AsStated(start_pos))
    /\ (m.kind = "Success" /\ m.ref.dist # head) => m.ref.dist <= Hop1PlusAsStated(start_pos)
    /\ (m.kind = "Success" /\ m.ref.dist = start_pos) => params.matches_to_start_detected

\* C29 (amended): both bounds of match_token are capped by the distance to
\* the start, which is start_pos with matches_to_start_detected and
\* start_pos - 1 without; below that cap the bound of the head chain entry
\* is window - 262 and the bound of the later entries window - 263 without
\* very_far_matches_detected, and both are the window with it.  A head entry
\* beyond its bound ends the call with DistanceLargerThanHop0, a later entry
\* is matched only within its bound, and a distance equal to start_pos is
\* matched only with matches_to_start_detected.
HopBounds ==
    \A offset \in {0, 1} :
        ReachesBounds(st.pos + offset)
        => BoundsAsStated(MatchTokenAt(st, 0, offset, 0), HeadDist(st, st.pos + offset),
                          st.pos + offset)

\* the head entry lies exactly window - 262 back, further than a later entry
\* may, and is matched
HopBoundsWitness ==
    /\ ~params.very_far_matches_detected
    /\ ReachesBounds(st.pos)
    /\ HeadDist(st, st.pos) = window_size - 262
    /\ DistToStart(st.pos) > window_size - 262
    /\ MatchTokenAt(st, 0, 0, 0).kind = "Success"
    /\ MatchTokenAt(st, 0, 0, 0).ref.dist = window_size - 262

\* C29 as worded: without very_far_matches_detected the bound of the later
\* entries is the bound of the head entry minus one, and with it both bounds
\* are the window.
HopBoundsAsWorded ==
    \A offset \in {0, 1} :
        ReachesBounds(st.pos + offset)
        => IF params.very_far_matches_detected
           THEN /\ cur_max_dist_hop0(st.pos + offset) = window_size
                /\ cur_max_dist_hop1_plus(st.pos + offset) = window_size
           ELSE /\ cur_max_dist_hop0(st.pos + offset) <= window_size - 262
                /\ cur_max_dist_hop1_plus(st.pos + offset)
                       = cur_max_dist_hop0(st.pos + offset) - 1

(***************************************************************************)
(* The chain budget of match_token: calls of match_token, in both builds,  *)
(* on a plaintext whose chain of "abc" grows by one byte of match with     *)
(* every entry further back, under every max_chain up to MaxChainParam.    *)
(***************************************************************************)
MaxChainParam == 9

\* abcde-abcd-abc-abcde
ChainText == <<1, 2, 3, 4, 5, 6, 1, 2, 3, 4, 7, 1, 2, 3, 8, 1, 2, 3, 4, 5>>

ChainParams ==
    { [ ZlibSlowParams EXCEPT !.max_chain = c, !.good_length = 3, !.nice_length = MAX_MATCH ] :
        c \in 0 .. MaxChainParam }
    \cup { [ ZlibSlowParams EXCEPT !.good_length = 3, !.nice_length = MIN_MATCH ] }

\* zabc-abc-abcd
TieText == <<9, 1, 2, 3, 6, 1, 2, 3, 7, 1, 2, 3, 4>>

InitChain ==
    /\ plain_text \in {ChainText, TieText}
    /\ params \in ChainParams
    /\ st = NewState
    /\ op = [name |-> "new", n |-> 0, old_pos |-> 0]
    /\ est = EstIdle
    /\ reader = ReaderIdle
    /\ TokIdle
    /\ tree = TreeIdle

\* one call of match_token, recorded in op; a call leaves the predictor as
\* it is, so that a call right after a call reaches no further state
MatchToken ==
    \E prev_len \in 0 .. MaxPrevLen, offset \in {0, 1}, max_depth \in 0 .. MaxDepthArg,
       checked \in BOOLEAN :
        /\ op.name # "match_token"
        /\ ReachesBounds(st.pos + offset)
        /\ op' = [ name |-> "match_token", n |-> offset, old_pos |-> st.pos,
                   prev_len |-> prev_len, max_depth |-> max_depth, checked |-> checked,
                   result |-> MatchTokenIn(checked, st, HashAt(st.pos + offset), prev_len,
                                           offset, max_depth) ]
        /\ UNCHANGED <<plain_text, params, st, tokVars, est, reader>>

NextChain == UpdateHashFar \/ MatchToken

SpecChain == InitChain /\ [][NextChain]_vars

\* the distances of the chain entries after the cursor that it may visit
RECURSIVE LaterDists(_, _)
LaterDists(s, it) ==
    IF ~CursorNext(s, it).valid THEN <<>>
    ELSE <<CursorNext(s, it).dist>> \o LaterDists(s, CursorNext(s, it))

\* the candidates of a call in the order of the walk, head entry first
CandidateDists(s, start_pos) ==
    <<HeadDist(s, start_pos)>>
        \o LaterDists(s, iterate_from_head(s, HashAt(start_pos), start_pos,
                                           cur_max_dist_hop1_plus(start_pos)))

\* the candidate at distance d is a match longer than prev_len
IsMatch(start_pos, d, prev_len) ==
    \A i \in 0 .. (Max(prev_len + 1, MIN_MATCH) - 1) :
        ByteAt(start_pos - d + i) = ByteAt(start_pos + i)

WithinBudget(cands, budget) ==
    { cands[i] : i \in 1 .. Min(budget, Len(cands)) }

BudgetAsStated(r, cands, budget, start_pos, prev_len) ==
    /\ r.st = "ok"
    /\ r.kind \in {"Success", "MaxChainExceeded", "NoMoreMatchesFound"}
    /\ r.kind = "Success" => r.ref.dist \in WithinBudget(cands, budget)
    /\ r.kind = "MaxChainExceeded"
           => /\ Len(cands) > budget
              /\ \A d \in WithinBudget(cands, budget) : ~IsMatch(start_pos, d, prev_len)
    /\ r.kind = "NoMoreMatchesFound"
           => /\ Len(cands) <= budget
              /\ \A d \in WithinBudget(cands, budget) : ~IsMatch(start_pos, d, prev_len)

\* the call of match_token recorded in op walked the chain
WalkedChain ==
    /\ op.name = "match_token"
    /\ op.result.kind \notin {"NoInput", "DistanceLargerThanHop0"}

\* C30: match_token compares at most C chain candidates and then returns,
\* where C is max_depth if max_depth > 0 and otherwise params.max_chain,
\* shifted right by 2 when prev_len >= good_length; it returns the best match
\* found so far, or MaxChainExceeded when the budget reaches zero with no
\* match and NoMoreMatchesFound when the chain ends first with no match, for
\* every parameter value, those with a shifted budget of 0 included.
ChainBudget ==
    WalkedChain
    => BudgetAsStated(op.result, CandidateDists(st, op.old_pos + op.n),
                      MaxChain(op.prev_len, op.max_depth), op.old_pos + op.n, op.prev_len)

\* the same for the calls whose budget is at least 1
ChainBudgetPositive ==
    (WalkedChain /\ MaxChain(op.prev_len, op.max_depth) >= 1)
    => BudgetAsStated(op.result, CandidateDists(st, op.old_pos + op.n),
                      MaxChain(op.prev_len, op.max_depth), op.old_pos + op.n, op.prev_len)

(***************************************************************************)
(* The order in which match_token examines the candidates, stated on the   *)
(* plaintext: the common prefix of each candidate with the bytes at        *)
(* start_pos, candidate by candidate from the head of the chain.           *)
(***************************************************************************)
MaxLenAt(start_pos) == Min(InputSize - start_pos, MAX_MATCH)

\* the first n bytes at distance d equal the first n bytes at start_pos
PrefixEqual(start_pos, d, n) ==
    \A i \in 0 .. (n - 1) : ByteAt(start_pos - d + i) = ByteAt(start_pos + i)

\* the candidate at distance d matches exactly n bytes
PrefixIs(start_pos, d, n) ==
    /\ PrefixEqual(start_pos, d, n)
    /\ n = MaxLenAt(start_pos) \/ ByteAt(start_pos - d + n) # ByteAt(start_pos + n)

\* the candidate at distance d matches more than prev_len bytes and at least nice
IsNice(start_pos, d, prev_len, nice) ==
    PrefixEqual(start_pos, d, Max(Max(prev_len + 1, MIN_MATCH), nice))

\* the indices of the candidates a budget admits
Examined(cands, budget) == 1 .. Min(budget, Len(cands))

ShortCircuits(m, cands, budget, start_pos, prev_len, nice) ==
    IF \E i \in Examined(cands, budget) : IsNice(start_pos, cands[i], prev_len, nice)
    THEN /\ m.kind = "Success"
         /\ \E i \in Examined(cands, budget) :
                /\ m.ref.dist = cands[i]
                /\ IsNice(start_pos, cands[i], prev_len, nice)
                /\ \A j \in 1 .. (i - 1) : ~IsNice(start_pos, cands[j], prev_len, nice)
         /\ PrefixIs(start_pos, m.ref.dist, m.ref.len)
    ELSE m.kind = "Success" => m.ref.len < nice

\* the call of match_token recorded in op walked the chain with a budget of
\* at least one candidate
WalkedSome == WalkedChain /\ MaxChain(op.prev_len, op.max_depth) >= 1

\* C31 (amended): a call of match_token with max_depth = 0 has nice_len =
\* min(params.nice_length, max_len) and a call with max_depth > 0 has
\* nice_len = max_len; the search returns with the first candidate it
\* examines whose match is longer than prev_len and at least nice_len long,
\* and returns no match that long otherwise.
NiceLenShortCircuit ==
    WalkedSome
    => ShortCircuits(op.result, CandidateDists(st, op.old_pos + op.n),
                     MaxChain(op.prev_len, op.max_depth), op.old_pos + op.n, op.prev_len,
                     IF op.max_depth > 0 THEN MaxLenAt(op.old_pos + op.n)
                     ELSE Min(params.nice_length, MaxLenAt(op.old_pos + op.n)))

\* a call without a depth limit stops at a head candidate of nice_length
\* bytes although a longer match lies further back within its budget
NiceLenShortCircuitWitness ==
    /\ WalkedSome
    /\ op.max_depth = 0
    /\ op.result.kind = "Success"
    /\ op.result.ref.dist = HeadDist(st, op.old_pos + op.n)
    /\ op.result.ref.len = params.nice_length
    /\ op.result.ref.len < MaxLenAt(op.old_pos + op.n)
    /\ \E i \in Examined(CandidateDists(st, op.old_pos + op.n),
                         MaxChain(op.prev_len, op.max_depth)) :
           PrefixEqual(op.old_pos + op.n, CandidateDists(st, op.old_pos + op.n)[i],
                       op.result.ref.len + 1)

\* C31 as worded: in every call nice_len = min(params.nice_length, max_len).
NiceLenInEveryCall ==
    WalkedSome
    => ShortCircuits(op.result, CandidateDists(st, op.old_pos + op.n),
                     MaxChain(op.prev_len, op.max_depth), op.old_pos + op.n, op.prev_len,
                     Min(params.nice_length, MaxLenAt(op.old_pos + op.n)))

\* C32: ties do not replace the current best: the reference match_token
\* returns is the first candidate, in the order of the walk from the newest,
\* whose match has the returned length; no candidate before it matches that
\* many bytes, and a later candidate of the same length does not replace it.
TiesKeepFirst ==
    (WalkedSome /\ op.result.kind = "Success")
    => \E i \in Examined(CandidateDists(st, op.old_pos + op.n),
                         MaxChain(op.prev_len, op.max_depth)) :
           /\ op.result.ref.dist = CandidateDists(st, op.old_pos + op.n)[i]
           /\ PrefixIs(op.old_pos + op.n, op.result.ref.dist, op.result.ref.len)
           /\ \A j \in 1 .. (i - 1) :
                  ~PrefixEqual(op.old_pos + op.n, CandidateDists(st, op.old_pos + op.n)[j],
                               op.result.ref.len)

\* the walk went on to a more distant candidate of the returned length
TiesKeepFirstWitness ==
    /\ WalkedSome
    /\ op.result.kind = "Success"
    /\ \E j \in Examined(CandidateDists(st, op.old_pos + op.n),
                         MaxChain(op.prev_len, op.max_depth)) :
           /\ CandidateDists(st, op.old_pos + op.n)[j] > op.result.ref.dist
           /\ PrefixIs(op.old_pos + op.n, CandidateDists(st, op.old_pos + op.n)[j],
                       op.result.ref.len)
    /\ op.result.ref.len < NiceLen(op.max_depth, MaxLenAt(op.old_pos + op.n))

\* a call at start_pos with a previous length: NoInput is returned exactly
\* when the input left, capped at 258, is shorter than a match longer than
\* prev_len or than 3; no prefix_compare of the call fails its assertion or
\* indexes past a slice, which leaves the distance to the start as the only
\* way for the call not to return
InputAsStated(m, start_pos, prev_len) ==
    /\ (m.kind = "NoInput")
           <=> (Min(InputSize - start_pos, 258) < Max(prev_len + 1, 3))
    /\ m.st = "panic" => max_dist_to_start(start_pos) < 0

\* C33: match_token returns NoInput exactly when min(total_input - (pos +
\* offset), 258) < max(prev_len + 1, 3); in every prefix_compare call of
\* match_token the probe index best_len is smaller than max_len and within
\* both compared slices.
NoInputExactly ==
    \A prev_len \in 0 .. MaxPrevLen, offset \in {0, 1}, max_depth \in 0 .. MaxDepthArg :
        st.pos + offset <= InputSize
        => InputAsStated(MatchTokenAt(st, prev_len, offset, max_depth), st.pos + offset,
                         prev_len)

\* one byte ahead the input is long enough for a match but not for one
\* longer than the previous length, and at the position itself a call probes
\* the last index below max_len and finds a match
NoInputExactlyWitness ==
    /\ st.pos + 1 <= InputSize
    /\ MaxLenAt(st.pos + 1) >= MIN_MATCH
    /\ MatchTokenAt(st, MaxPrevLen, 1, 0).kind = "NoInput"
    /\ MaxLenAt(st.pos) > MIN_MATCH
    /\ MatchTokenAt(st, MaxLenAt(st.pos) - 1, 0, 0).kind = "Success"

\* what predict_token answers at tp, p being its result and m the match at
\* the position (the pending reference, or what match_token finds)
AnswerAsStated(tp, p, m) ==
    /\ (tp.pos = 0 \/ Remaining(tp) < 3) => p.tok = Literal
    /\ ~params.is_fast_compressor
           => ~(p.tok.t = "R" /\ p.tok.len = 3 /\ p.tok.dist > params.max_dist_3_matches)
    /\ (params.is_fast_compressor /\ ReachesMatchToken(tp) /\ m.kind = "Success"
            /\ m.ref.len >= 3)
           => (p.tok = Reference(m.ref) /\ p.pending = NoRef)

\* C34: far matches of length 3 are not predicted: without is_fast_compressor
\* predict_token returns no Reference with len = 3 and dist >
\* max_dist_3_matches; with is_fast_compressor it returns the match found as
\* a Reference, with no lazy probe; it returns Literal at input position 0
\* and where fewer than 3 bytes remain.
FarShortMatches ==
    (pc = "token" /\ Remaining(enc) >= 0 /\ predict_token(enc).st = "ok")
    => AnswerAsStated(enc, predict_token(enc), CurrentMatch(enc))

\* the match at the position has length 3 and lies further back than
\* max_dist_3_matches, and the answer is Literal
FarShortMatchesWitness ==
    /\ pc = "token"
    /\ ReachesMatchToken(enc)
    /\ ~params.is_fast_compressor
    /\ CurrentMatch(enc).kind = "Success"
    /\ CurrentMatch(enc).ref.len = 3
    /\ CurrentMatch(enc).ref.dist > params.max_dist_3_matches
    /\ predict_token(enc) = PredOut("ok", Literal, NoRef)

(***************************************************************************)
(* SpecRle: predict_code_type and predict_code_data applied to the rest of *)
(* a bit-length vector made of two runs, from its first or second symbol,  *)
(* after any previous code.                                                *)
(***************************************************************************)
MaxRleRun == 139

RunLens == (1 .. 12) \cup ((MaxRleRun - 2) .. MaxRleRun)

RleSymbols == {0, 3, 4}

RleVectors ==
    { [i \in 1 .. (n1 + n2) |-> IF i <= n1 THEN c1 ELSE c2] :
        c1 \in RleSymbols, c2 \in RleSymbols, n1 \in RunLens, n2 \in RunLens }

InitRle ==
    /\ plain_text = <<>>
    /\ params = ZlibSlowParams
    /\ st = NewState
    /\ op = [name |-> "new", n |-> 0, old_pos |-> 0]
    /\ est = EstIdle
    /\ reader = ReaderIdle
    /\ TokIdle
    /\ \E v \in RleVectors, off \in {0, 1}, previous_code \in {-1} \cup RleSymbols :
           tree = [pc |-> "rle", v |-> v, off |-> off, previous_code |-> previous_code,
                   code_type |-> TC_CODE, data |-> 0]

PredictCode ==
    /\ tree.pc = "rle"
    /\ tree' = [tree EXCEPT
                  !.pc = "typed",
                  !.code_type = predict_code_type(tree.v, tree.off, tree.previous_code),
                  !.data = predict_code_data(tree.v, tree.off,
                               predict_code_type(tree.v, tree.off, tree.previous_code))]
    /\ UNCHANGED <<plain_text, params, hashVars, est, reader, enc, dec, cur_block, cur_last, events, rec, pc,
                   blocks_done>>

NextRle == PredictCode

SpecRle == InitRle /\ [][NextRle]_vars

\* the remaining slice of the vector and the length of its leading run of c
RestOf(t) == SubSeq(t.v, t.off + 1, Len(t.v))

LeadingRun(slice, c) ==
    CHOOSE k \in 0 .. Len(slice) :
        /\ \A j \in 1 .. k : slice[j] = c
        /\ k = Len(slice) \/ slice[k + 1] # c

TypeAsStated(slice, previous_code) ==
    IF LeadingRun(slice, 0) >= 11 THEN TC_ZERO_LONG
    ELSE IF LeadingRun(slice, 0) >= 3 THEN TC_ZERO_SHORT
    ELSE IF slice[1] # 0 /\ slice[1] = previous_code /\ LeadingRun(slice, slice[1]) >= 3
    THEN TC_REPEAT
    ELSE TC_CODE

DataAsStated(slice, code_type, data) ==
    IF code_type = TC_CODE THEN data = slice[1]
    ELSE /\ code_type = TC_REPEAT => data \in 3 .. 6
         /\ code_type = TC_ZERO_SHORT => data \in 3 .. 10
         /\ code_type = TC_ZERO_LONG => data \in 11 .. 138
         /\ data <= Len(slice)
         /\ \A j \in 1 .. data : slice[j] = (IF code_type = TC_REPEAT THEN slice[1] ELSE 0)

\* C35: for every non-empty rest of a bit-length vector predict_code_type
\* returns ZeroLong for at least 11 leading zeros, ZeroShort for 3 to 10,
\* Repeat when the first symbol is not zero, equals previous_code and leads
\* a run of at least 3, and Code otherwise; predict_code_data returns the
\* symbol for Code, a value in 3..6 for Repeat, 3..10 for ZeroShort and
\* 11..138 for ZeroLong, no more than the symbols that remain and covering
\* only symbols equal to the repeated value.
RlePrediction ==
    tree.pc = "typed"
    => /\ tree.code_type = TypeAsStated(RestOf(tree), tree.previous_code)
       /\ DataAsStated(RestOf(tree), tree.code_type, tree.data)

\* more than 138 leading zeros: ZeroLong with the largest run it can carry
RlePredictionWitness ==
    /\ tree.pc = "typed"
    /\ LeadingRun(RestOf(tree), 0) > 138
    /\ tree.code_type = TC_ZERO_LONG
    /\ tree.data = 138

(***************************************************************************)
(* SpecFrame: the operations of a predictor in any order.  The searches    *)
(* take &self and leave the predictor as it is; predict_token takes        *)
(* &mut self and assigns pending_reference only; update_hash and skip_hash *)
(* move the input position.  op names the last operation and its result.  *)
(***************************************************************************)
MaxHops == 2

Searches == {"match_token", "calculate_hops", "hop_match"}

InitFrame ==
    /\ plain_text \in SamplePlaintexts \cup {LazyPlaintext}
    /\ params \in {ZlibSlowParams, ZlibFastParams, NonZlibParams}
    /\ st = NewState
    /\ op = [name |-> "new", result |-> Ok(0)]
    /\ est = EstIdle
    /\ reader = ReaderIdle
    /\ enc = NewPredictor
    /\ dec = NewPredictor
    /\ cur_block = NewBlock(BT_STORED)
    /\ cur_last = FALSE
    /\ events = [st |-> "none", evs |-> <<>>]
    /\ rec = [st |-> "none", block |-> NewBlock(BT_STORED), kinds |-> <<>>]
    /\ pc = "frame"
    /\ blocks_done = 0
    /\ tree = TreeIdle

FrameMatchToken ==
    /\ \E prev_len \in 0 .. MaxPrevLen, offset \in {0, 1}, max_depth \in 0 .. MaxDepthArg :
           /\ ReachesBounds(enc.pos + offset)
           /\ op' = [name |-> "match_token",
                     result |-> MatchTokenAt(enc, prev_len, offset, max_depth)]
    /\ UNCHANGED <<plain_text, params, st, tokVars, est, reader>>

FrameCalculateHops ==
    /\ \E target \in TargetRefs(enc) :
           op' = [name |-> "calculate_hops", result |-> calculate_hops(enc, target)]
    /\ UNCHANGED <<plain_text, params, st, tokVars, est, reader>>

FrameHopMatch ==
    /\ \E len \in MIN_MATCH .. (MIN_MATCH + 1), hops \in 1 .. MaxHops :
           op' = [name |-> "hop_match", result |-> hop_match(enc, len, hops)]
    /\ UNCHANGED <<plain_text, params, st, tokVars, est, reader>>

FramePredictToken ==
    /\ Remaining(enc) >= 0
    /\ predict_token(enc).st = "ok"
    /\ enc' = WithPending(enc, predict_token(enc))
    /\ op' = [name |-> "predict_token", result |-> Ok(0)]
    /\ UNCHANGED <<plain_text, params, st, est, reader, dec, cur_block, cur_last, events, rec, pc,
                   blocks_done, tree>>

FrameUpdateHash ==
    /\ \E n \in 1 .. MaxFarStep :
           /\ n <= Remaining(enc)
           /\ enc' = update_hash(enc, n)
    /\ op' = [name |-> "update_hash", result |-> Ok(0)]
    /\ UNCHANGED <<plain_text, params, st, est, reader, dec, cur_block, cur_last, events, rec, pc,
                   blocks_done, tree>>

FrameSkipHash ==
    /\ \E n \in 1 .. MaxFarStep :
           /\ n <= Remaining(enc)
           /\ enc' = skip_hash(enc, n)
    /\ op' = [name |-> "skip_hash", result |-> Ok(0)]
    /\ UNCHANGED <<plain_text, params, st, est, reader, dec, cur_block, cur_last, events, rec, pc,
                   blocks_done, tree>>

NextFrame ==
    \/ FrameMatchToken
    \/ FrameCalculateHops
    \/ FrameHopMatch
    \/ FramePredictToken
    \/ FrameUpdateHash
    \/ FrameSkipHash

SpecFrame == InitFrame /\ [][NextFrame]_vars

FrameStep ==
    /\ op'.name \in Searches => enc' = enc
    /\ op'.name = "predict_token" => [enc' EXCEPT !.pending = enc.pending] = enc
    /\ enc'.pos >= enc.pos
    /\ enc'.pos # enc.pos => op'.name \in {"update_hash", "skip_hash"}

\* C36: match_token, calculate_hops and hop_match leave the input position
\* and the hash chain as they are, predict_token changes pending_reference
\* only, and over any sequence of operations the input position never
\* decreases and changes through update_hash and skip_hash only.
SearchesLeaveState == [][FrameStep]_vars

\* a predict_token that stored a pending reference, further on in the input
SearchesLeaveStateWitness ==
    /\ pc = "frame"
    /\ op.name = "predict_token"
    /\ enc.pending # NoRef
    /\ enc.pos > MIN_MATCH


(***************************************************************************)
(* C37.  Bit order of ZipBitReader::get: for all a, b >= 1 with            *)
(* a + b <= 32 and any reader state with enough readable data, get(a) then *)
(* get(b) return x and y such that x | (y << a) is the value a single      *)
(* get(a + b) returns from the same state, however the buffer is refilled; *)
(* get(0) returns 0 and get(n) for n > 32 returns an error, both without   *)
(* changing the reader state.                                              *)
(***************************************************************************)
SplitSizes == {1, 7, 8, 9, 16, 23, 24}

\* SpecBits: the readers of SpecReader after at most MaxBitCalls calls
GetBits == GetWithin(MaxBitCalls)
ReadByteBits == ReadByteWithin(MaxBitCalls)
FlushBits == FlushWithin(MaxBitCalls)

NextBits == GetBits \/ ReadByteBits \/ FlushBits

SpecBits == InitReader /\ [][NextBits]_vars

\* the bytes the reader can still load: what is left of its limit, which the
\* stream holds in full (the loads are sized by the limit, not by the stream)
ReadableBytes(r) ==
    IF r.max_readable_bytes < 0 THEN r.len - r.pos ELSE r.max_readable_bytes

EnoughData(r, n) ==
    /\ r.pos + r.max_readable_bytes <= r.len
    /\ r.count_of_bits_in_buffer + 8 * ReadableBytes(r) >= n

\* x | (y << a) on u32
OrShifted(x, y, a) == [i \in 1 .. 32 |-> IF i > a THEN Max(x[i], y[i - a]) ELSE x[i]]

\* the reader as the code holds it
ReaderFields(r) ==
    <<r.pos, r.max_readable_bytes, r.count_of_bits_in_buffer, r.return_value_buffer>>

Joined(r1, r2, a, r12) ==
    /\ r1.last = "ok" /\ r2.last = "ok" /\ r12.last = "ok"
    /\ OrShifted(r1.wret, r2.wret, a) = r12.wret

SplitAgrees(r, r1, a, b) == Joined(r1, get(r1, b, FALSE), a, get(r, a + b, FALSE))

GetNothing(r, r0) ==
    r0.last = "ok" /\ r0.wret = ZeroBits(32) /\ ReaderFields(r0) = ReaderFields(r)

GetTooMany(r, r33) == r33.last = "err" /\ ReaderFields(r33) = ReaderFields(r)

BitOrder ==
    reader.pc = "ready" =>
        /\ \A a \in SplitSizes, b \in SplitSizes :
              (a + b <= 32 /\ EnoughData(reader, a + b)) =>
                  SplitAgrees(reader, get(reader, a, FALSE), a, b)
        /\ GetNothing(reader, get(reader, 0, FALSE))
        /\ \A n \in {33, 40, 64} : GetTooMany(reader, get(reader, n, FALSE))

\* a reader with bits left in its buffer, from which get(16) takes the last
\* buffered bits and the first bits of the next load, some of them set
BitOrderWitness ==
    /\ reader.pc = "ready"
    /\ reader.count_of_bits_in_buffer \in 1 .. 15
    /\ EnoughData(reader, 16)
    /\ \E i \in 1 .. 16 : get(reader, 16, FALSE).wret[i] = 1
    /\ \E i \in 1 .. 16 : get(reader, 16, FALSE).wret[i] = 0
    /\ \E i \in 17 .. 32 : get(get(reader, 16, FALSE), 16, FALSE).wret[i - 16] = 1


(***************************************************************************)
(* C38.  flush_buffer_to_byte_boundary: after get calls that returned k    *)
(* bits in total since the last byte boundary, flush leaves                *)
(* count_of_bits_in_buffer = 0, positions the stream at the first byte     *)
(* from which no bit has been returned, ceil(k / 8) bytes after that       *)
(* boundary, and increases max_readable_bytes by exactly the number of     *)
(* bytes it seeks back, so that bytes consumed plus max_readable_bytes     *)
(* stays equal to the initial limit; read_byte returns an error whenever   *)
(* bits are still buffered.  The calls before the flush are calls that     *)
(* returned their bits: none has failed.                                   *)
(***************************************************************************)
CeilDiv8(k) == (k + 7) \div 8

Flushed(r, r1) ==
    /\ r1.last = "ok"
    /\ r1.count_of_bits_in_buffer = 0
    /\ r1.pos = r.boundary + CeilDiv8(r.since)
    /\ r1.max_readable_bytes - r.max_readable_bytes = r.pos - r1.pos
    /\ (r1.pos - r1.initial) + r1.max_readable_bytes = r1.limit

FlushStep ==
    /\ (reader'.call = "flush" /\ reader'.calls = reader.calls + 1 /\ ~reader.failed)
           => Flushed(reader, reader')
    /\ (reader'.call = "read_byte" /\ reader'.calls = reader.calls + 1
            /\ reader.count_of_bits_in_buffer # 0)
           => reader'.last = "err"

FlushToBoundary == [][FlushStep]_vars

\* a flush as the third call, which found whole bytes unread in the buffer:
\* it stands past the first byte, short of the bytes loaded, with bytes refunded
FlushToBoundaryWitness ==
    /\ reader.pc = "ready"
    /\ reader.call = "flush" /\ ~reader.failed /\ reader.calls = 3
    /\ reader.pos > reader.initial + 1
    /\ reader.pos - reader.initial < reader.high
    /\ reader.max_readable_bytes > 0
    /\ \E i \in 1 .. 64 : reader.return_value_buffer[i] = 1


(***************************************************************************)
(* C39.  Bit-reader position reporting: in every reachable reader state    *)
(* position() is the byte offset of the byte holding the next bit get      *)
(* would return, bit_position_in_current_byte() is in 0 .. 7 and equals    *)
(* the number of bits of that byte already returned, and therefore         *)
(* bit_position() equals 8 * initial byte position plus the total number   *)
(* of bits returned by get so far.                                         *)
(***************************************************************************)
position(r) ==
    r.pos - (IF r.count_of_bits_in_buffer = 0 THEN 0
             ELSE 1 + ((r.count_of_bits_in_buffer - 1) \div 8))

bit_position_in_current_byte(r) == 8 - (r.count_of_bits_in_buffer % 8)

bit_position(r) == position(r) * 8 + bit_position_in_current_byte(r)

\* the offset, in bits, of the next bit get would return: the bits returned
\* since the last byte boundary, counted from it
NextBit(r) == 8 * r.boundary + r.since

\* only get has been called, and every call returned its bits
OnlyGets(r) == ~r.failed /\ r.boundary = r.initial /\ r.call \in {"new", "get"}

PositionAsStated(r) == position(r) = NextBit(r) \div 8

BitInByteAsStated(r) ==
    /\ bit_position_in_current_byte(r) \in 0 .. 7
    /\ bit_position_in_current_byte(r) = NextBit(r) % 8

BitPositionAsStated(r) == bit_position(r) = 8 * r.initial + r.since

PositionReport ==
    (reader.pc = "ready" /\ OnlyGets(reader)) =>
        /\ PositionAsStated(reader)
        /\ BitInByteAsStated(reader)
        /\ BitPositionAsStated(reader)

\* what the code does report: the byte is right, and the bit within it is
\* right except on a byte boundary, where it is 8
PositionByteOnly ==
    (reader.pc = "ready" /\ OnlyGets(reader)) =>
        /\ PositionAsStated(reader)
        /\ NextBit(reader) % 8 # 0 => BitInByteAsStated(reader) /\ BitPositionAsStated(reader)
        /\ NextBit(reader) % 8 = 0 =>
              /\ bit_position_in_current_byte(reader) = 8
              /\ bit_position(reader) = 8 * reader.initial + reader.since + 8


(***************************************************************************)
(* Zip64ExtendedInformation over a seekable stream of len bytes at pos.    *)
(* A u32 header value is its two 16-bit halves, high first.  A field that  *)
(* was read is the place it was read from, [at |-> offset from the start   *)
(* of the record, bytes |-> width]; a field that is 0 is ZeroField.  z is  *)
(* the call: its arguments, unprocessed_extended_info_size_in_bytes, the   *)
(* structure being filled and the result ("none" while it runs, "io" for   *)
(* an error of the stream).                                                *)
(***************************************************************************)
AllOnes32 == <<65535, 65535>>
AllOnes16 == 65535
MaxExtraBytes == 3

ZeroField == [at |-> 0, bytes |-> 0]

\* Zip64ExtendedInformation::new
NewZip64Info ==
    [size_original |-> ZeroField, size_compressed |-> ZeroField,
     relative_header_offset |-> ZeroField, disk_start_number |-> ZeroField]

Running(z) == z.result = "none"

EndOfStream(z) == [z EXCEPT !.result = "EndOfStreamException"]

\* self.field = the value the read rd of n bytes at offset at returned
Loaded(rd, field, at, n) ==
    IF rd.last = "err" THEN [rd EXCEPT !.result = "io"]
    ELSE [rd EXCEPT !.info[field] = [at |-> at, bytes |-> n]]

\* self.field = binary_reader.read_u64 / read_u32 ::<LittleEndian>()?
ReadInto(z, field, n, consumed) ==
    IF Running(z) THEN Loaded(StreamRead(z, n, consumed), field, z.pos - z.initial, n) ELSE z

\* *unprocessed_extended_info_size_in_bytes -= n
Processed(z, n) == IF Running(z) THEN [z EXCEPT !.unprocessed = @ - n] ELSE z

\* one field that is expected only if its header value is all ones
ExpectAnyway(z, wanted, field, n, consumed) ==
    IF ~Running(z) THEN z
    ELSE IF z.unprocessed < n THEN EndOfStream(z)
    ELSE Processed(ReadInto(z, field, n, consumed), n)
Expect(z, wanted, field, n, consumed) ==
    IF ~Running(z) \/ ~wanted THEN z
    ELSE IF z.unprocessed < n THEN EndOfStream(z)
    ELSE Processed(ReadInto(z, field, n, consumed), n)

Returns(z, result) == IF Running(z) THEN [z EXCEPT !.result = result] ELSE z

\* the local header's branch: both sizes, then Ok if nothing is left
LocalSizesRead(z) == IF z.unprocessed = 0 THEN Returns(z, "Ok") ELSE z

LocalSizes(z, consumed) ==
    IF z.unprocessed < 16 THEN EndOfStream(z)
    ELSE LocalSizesRead(Processed(ReadInto(ReadInto(z, "size_original", 8, consumed),
                                           "size_compressed", 8, consumed), 16))

Sizes(z, consumed) ==
    IF z.f_local_header THEN LocalSizes(z, consumed)
    ELSE Expect(Expect(z, z.size_original32 = AllOnes32, "size_original", 8, consumed),
                z.size_compressed32 = AllOnes32, "size_compressed", 8, consumed)

load_without_seek_forward(z, consumed) ==
    Returns(Expect(Expect(Sizes(z, consumed),
                          z.relative_header_offset32 = AllOnes32,
                          "relative_header_offset", 8, consumed),
                   z.diskstart_number16 = AllOnes16, "disk_start_number", 4, consumed),
            "Ok")

\* binary_reader.seek(SeekFrom::Current(unprocessed)), which may pass the end
SeekForward(z) == IF z.unprocessed > 0 THEN [z EXCEPT !.pos = @ + z.unprocessed] ELSE z

load(z, consumed) == SeekForward(load_without_seek_forward(z, consumed))

create_and_load(z, consumed) == load([z EXCEPT !.info = NewZip64Info], consumed)

\* the call of create_and_load on a stream of len bytes standing at initial
Zip64Call(len, initial, f_local_header, size, a) ==
    [ pc |-> "zip64", len |-> len, pos |-> initial, initial |-> initial, high |-> 0,
      last |-> "new", f_local_header |-> f_local_header,
      extended_info_size_in_bytes |-> size, unprocessed |-> size,
      size_original32 |-> a[1], size_compressed32 |-> a[2],
      relative_header_offset32 |-> a[3], diskstart_number16 |-> a[4],
      info |-> NewZip64Info, result |-> "none" ]

(***************************************************************************)
(* SpecZip64: one call of create_and_load, for a local or a central        *)
(* header, every declared size up to two bytes past the four fields, each  *)
(* header value all ones or not, over a stream that holds the declared     *)
(* bytes or ends up to MaxExtraBytes bytes short of them.                  *)
(***************************************************************************)
HeaderValues32 == {AllOnes32, <<0, 65535>>, <<0, 0>>}
HeaderValues16 == {AllOnes16, 255, 0}
DeclaredSizes == {0, 4, 7, 8, 12, 15, 16, 20, 24, 28, 30}

InitZip64 ==
    /\ plain_text = <<>>
    /\ params = ZlibSlowParams
    /\ st = NewState
    /\ op = [name |-> "new", n |-> 0, old_pos |-> 0]
    /\ TokIdle
    /\ tree = TreeIdle
    /\ est = EstIdle
    /\ \E size \in DeclaredSizes, f_local_header \in BOOLEAN, initial \in {0, 5},
          slack \in {-MaxExtraBytes, 0, MaxExtraBytes},
          a \in HeaderValues32 \X HeaderValues32 \X HeaderValues32 \X HeaderValues16 :
          /\ size + slack >= 0
          /\ reader = Zip64Call(initial + size + slack, initial, f_local_header, size, a)

CreateAndLoad ==
    /\ reader.pc = "zip64"
    /\ Running(reader)
    /\ \E consumed \in BOOLEAN : reader' = create_and_load(reader, consumed)
    /\ UNCHANGED <<plain_text, params, hashVars, tokVars, est>>

NextZip64 == CreateAndLoad

SpecZip64 == InitZip64 /\ [][NextZip64]_vars

(***************************************************************************)
(* C40.  Zip64ExtendedInformation::create_and_load, given a reader holding *)
(* at least extended_info_size_in_bytes bytes, advances the reader by      *)
(* exactly extended_info_size_in_bytes whether it returns Ok or the        *)
(* EndOfStreamException error; for a local header it always reads          *)
(* size_original then size_compressed (error if fewer than 16 bytes are    *)
(* declared), and otherwise it reads each field, in the order original     *)
(* size, compressed size, header offset, disk start number, if and only if *)
(* the corresponding header value passed in is the all-ones sentinel,      *)
(* leaving unread fields at 0.  The fields are those of the structure      *)
(* returned, so of a call that returned Ok.                                *)
(***************************************************************************)
HoldsDeclared(z) == z.initial + z.extended_info_size_in_bytes <= z.len

\* the field read first after at bytes of the record, if wanted
FieldAsStated(value, wanted, at, n) ==
    IF wanted THEN value = [at |-> at, bytes |-> n] ELSE value = ZeroField

Width(wanted, n) == IF wanted THEN n ELSE 0

\* the four fields, the first two read if o and c say so, the others if the
\* header's value is all ones
FieldsAsStated(z, o, c) ==
    /\ FieldAsStated(z.info.size_original, o, 0, 8)
    /\ FieldAsStated(z.info.size_compressed, c, Width(o, 8), 8)
    /\ FieldAsStated(z.info.relative_header_offset, z.relative_header_offset32 = AllOnes32,
                     Width(o, 8) + Width(c, 8), 8)
    /\ FieldAsStated(z.info.disk_start_number, z.diskstart_number16 = AllOnes16,
                     Width(o, 8) + Width(c, 8)
                         + Width(z.relative_header_offset32 = AllOnes32, 8), 4)

LocalAsStated(z) ==
    /\ z.extended_info_size_in_bytes < 16 => z.result = "EndOfStreamException"
    /\ z.result = "Ok" =>
          /\ z.info.size_original = [at |-> 0, bytes |-> 8]
          /\ z.info.size_compressed = [at |-> 8, bytes |-> 8]
          /\ z.extended_info_size_in_bytes > 16 => FieldsAsStated(z, TRUE, TRUE)

CentralAsStated(z) ==
    z.result = "Ok" =>
        FieldsAsStated(z, z.size_original32 = AllOnes32, z.size_compressed32 = AllOnes32)

Zip64Load ==
    (reader.pc = "zip64" /\ ~Running(reader) /\ HoldsDeclared(reader)) =>
        /\ reader.result \in {"Ok", "EndOfStreamException"}
        /\ reader.pos = reader.initial + reader.extended_info_size_in_bytes
        /\ IF reader.f_local_header THEN LocalAsStated(reader) ELSE CentralAsStated(reader)

\* a central header's record of 30 bytes whose compressed size and disk
\* start number are all ones and whose other values are not: the two
\* fields are read from its first 12 bytes and the rest is skipped
Zip64LoadWitness ==
    /\ reader.pc = "zip64" /\ reader.result = "Ok" /\ HoldsDeclared(reader)
    /\ ~reader.f_local_header
    /\ reader.extended_info_size_in_bytes = 30
    /\ reader.size_original32 = <<0, 65535>>
    /\ reader.relative_header_offset32 = <<0, 0>>
    /\ reader.info.size_compressed = [at |-> 0, bytes |-> 8]
    /\ reader.info.disk_start_number = [at |-> 8, bytes |-> 4]
    /\ reader.pos = reader.initial + 30

====
